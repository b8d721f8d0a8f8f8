--------------------------------- MODULE S3 ---------------------------------
(***************************************************************************)
(* The S3 plugin (plugins/s3/s3.go): S3 is a Spool whose OnRotate uploads  *)
(* the file that was rotated; S3Generator lists the bucket page by page    *)
(* and reads its objects one after another.                                *)
(*                                                                         *)
(* The bucket is external.  Its keys are labels of the time, in order;     *)
(* other writers, a lifecycle rule that moves or deletes objects, requests *)
(* that fail and uploads whose answer is lost are its environment.  An     *)
(* object is the number of its file and what is wrong with it; files have  *)
(* ObjectMsgs messages.                                                    *)
(***************************************************************************)
EXTENDS Integers, Sequences, SequencesExt

CONSTANTS
  MaxObjects,  \* bound: objects in the bucket and files rotated
  ObjectMsgs,  \* messages of a file
  ListMax,     \* listMax
  MaxFaults    \* bound: requests that fail

ASSUME S3Assumption ==
  /\ MaxObjects \in Nat
  /\ ObjectMsgs \in Nat \ {0}
  /\ ListMax \in Nat \ {0}
  /\ MaxFaults \in Nat

VARIABLES
  signed,      \* signKey is set
  uploads,     \* files rotated
  refused,     \* files whose upload returned an error
  lastFile,    \* key of the last upload, 0: none
  bucket,      \* the objects: [file, is]
  allow,       \* AllowUnsigned
  page,        \* g.list: its keys, in order; Nil after the last
  truncated,   \* g.list.IsTruncated
  cur, marker,
  dec,         \* g.dec: its key, the messages read, whether the stream is cut
               \* short; Nil at first
  s3pc,        \* where Generate is
  read,        \* messages returned: <<key, number>>
  passed,      \* objects Generate returned an error for, or left out
  faults,      \* requests that failed
  s3end        \* "no"; "eof": Generate returned io.EOF; "panic"

putVars == <<signed, uploads, refused, lastFile>>
list    == <<page, truncated, marker>>
getVars == <<list, cur, dec, s3pc, read, passed, s3end>>
s3Vars  == <<putVars, getVars, allow, bucket, faults>>

Nil == <<0, 0, FALSE>>
Keys == DOMAIN bucket

\* What an object may be besides a good one: its class; its signature, which a
\* lost key or another content makes bad; a stream cut inside a message, or
\* with another header; deleted.
Flaws == {"glacier", "unsigned", "keyless", "bad", "cut", "garbled", "deleted"}

-----------------------------------------------------------------------------
(* S3: onRotate, called by Spool.Rotate, which ignores its error           *)

\* The file cannot be opened, read or signed.
RotateUnread ==
  /\ uploads < MaxObjects /\ faults < MaxFaults
  /\ uploads' = uploads + 1 /\ faults' = faults + 1
  /\ refused' = refused \cup {uploads + 1}
  /\ UNCHANGED <<signed, lastFile, getVars, allow, bucket>>

\* The label of the time; the object's key.
FileName == Len(bucket) + 1

\* Stored and answered, stored or not and answered with an error.
PutReader(stored, ok) ==
  /\ uploads < MaxObjects /\ Len(bucket) < MaxObjects
  /\ ok \/ faults < MaxFaults
  /\ uploads' = uploads + 1
  /\ faults' = IF ok THEN faults ELSE faults + 1
  /\ refused' = IF ok THEN refused ELSE refused \cup {uploads + 1}
  /\ lastFile' = FileName
  /\ bucket' = IF ~stored THEN bucket
               ELSE Append(bucket, [file |-> uploads + 1,
                                    is |-> IF signed THEN "good" ELSE "unsigned"])
  /\ UNCHANGED <<signed, getVars, allow>>

OnRotate == \/ RotateUnread
            \/ PutReader(TRUE, TRUE) \/ PutReader(TRUE, FALSE) \/ PutReader(FALSE, FALSE)

-----------------------------------------------------------------------------
(* The bucket                                                              *)

\* File 0 is another writer's.
PutOther(is) ==
  /\ Len(bucket) < MaxObjects
  /\ bucket' = Append(bucket, [file |-> 0, is |-> is])
  /\ UNCHANGED <<putVars, getVars, allow, faults>>

Expire(k, is) ==
  /\ bucket[k].is \notin {"glacier", "deleted"} /\ faults < MaxFaults
  /\ faults' = faults + 1
  /\ bucket' = [bucket EXCEPT ![k].is = is]
  /\ UNCHANGED <<putVars, getVars, allow>>

-----------------------------------------------------------------------------
(* S3Generator                                                             *)

\* Bucket.List: of the objects after marker, in the order of their keys, the
\* first ListMax, or all.
After == {k \in Keys : k > marker /\ bucket[k].is # "deleted"}
Listed(s) ==
  /\ s \in SeqOf(After, ListMax)
  /\ \A i, j \in DOMAIN s : i < j => s[i] < s[j]
  /\ Len(s) = ListMax \/ After \subseteq Range(s)
  /\ \A k \in After \ Range(s), i \in DOMAIN s : s[i] < k

\* Mutant: the first key of the page.
FirstKey(s) == s[1]

\* The last key of the page, the next page's marker.
LastKey(s) == s[Len(s)]

TakeList ==
  \E s \in SeqOf(After, ListMax) :
    /\ Listed(s)
    /\ page' = s
    /\ truncated' = ~(After \subseteq Range(s))
    /\ marker' = IF s = << >> THEN marker ELSE LastKey(s)

NewS3Generator ==
  /\ s3pc = "new"
  /\ TakeList
  /\ s3pc' = "next"
  /\ UNCHANGED <<putVars, allow, cur, dec, read, passed, s3end, bucket, faults>>

\* g.cur++, and the object is the next one of the list.
NextObject ==
  /\ s3pc = "next" /\ page # Nil /\ cur + 1 < Len(page)
  /\ cur' = cur + 1
  /\ s3pc' = "get"
  /\ UNCHANGED <<putVars, allow, list, dec, read, passed, s3end, bucket, faults>>

\* The list is done: updateList asks for the rest of a truncated one.  One that
\* brings nothing is indexed all the same.
NextList ==
  /\ s3pc = "next" /\ page # Nil /\ cur + 1 = Len(page) /\ truncated
  /\ TakeList
  /\ cur' = 0 /\ s3pc' = "get"
  /\ s3end' = IF page' = << >> THEN "panic" ELSE s3end
  /\ UNCHANGED <<putVars, allow, dec, read, passed, bucket, faults>>

\* updateList returns an error after g.cur was counted up.
ListFails ==
  /\ s3pc = "next" /\ page # Nil /\ cur + 1 = Len(page) /\ truncated
  /\ faults < MaxFaults
  /\ faults' = faults + 1
  /\ cur' = cur + 1
  /\ UNCHANGED <<putVars, allow, list, dec, s3pc, read, passed, s3end, bucket>>

NextEOF ==
  /\ s3pc = "next" /\ page # Nil /\ cur + 1 = Len(page) /\ ~truncated
  /\ page' = Nil /\ cur' = cur + 1
  /\ s3end' = "eof"
  /\ UNCHANGED <<putVars, allow, truncated, marker, dec, s3pc, read, passed, bucket, faults>>

\* Generate is called again after io.EOF, or after ListFails.
NextPanics ==
  /\ s3pc = "next" /\ (page = Nil \/ cur + 1 > Len(page))
  /\ s3end' = "panic"
  /\ UNCHANGED <<putVars, allow, list, cur, dec, s3pc, read, passed, bucket, faults>>

validClass(k) == bucket[k].is # "glacier"

\* extractSignature, ValidateETag: a signature that names no key is not
\* verified, as is no signature where that is allowed.
Verified(k) == bucket[k].is \notin {"bad"} \cup (IF allow THEN {} ELSE {"unsigned"})

\* The object at g.cur: a class to ignore; an error of the request, of the
\* signature or of the stream's header; or a decoder.  An error leaves dec nil:
\* the next Generate goes on with the next object.
GetResponse ==
  LET k == page[cur + 1]
      ok == /\ validClass(k) /\ Verified(k)
            /\ bucket[k].is \notin {"deleted", "garbled"}
  IN  /\ s3pc = "get"
      /\ IF ok THEN /\ dec' = <<k, 0, bucket[k].is = "cut">>
                    /\ s3pc' = "read" /\ UNCHANGED passed
         ELSE passed' = passed \cup {k} /\ s3pc' = "next" /\ UNCHANGED dec
      /\ UNCHANGED <<putVars, allow, list, cur, read, s3end, bucket, faults>>

GetFails ==
  /\ s3pc = "get" /\ faults < MaxFaults
  /\ faults' = faults + 1
  /\ passed' = passed \cup {page[cur + 1]}
  /\ s3pc' = "next"
  /\ UNCHANGED <<putVars, allow, list, cur, dec, read, s3end, bucket>>

\* A message.
ReadMessage ==
  /\ s3pc = "read"
  /\ dec[2] < ObjectMsgs /\ ~(dec[3] /\ dec[2] = ObjectMsgs - 1)
  /\ dec' = <<dec[1], dec[2] + 1, dec[3]>>
  /\ read' = Append(read, <<dec[1], dec[2] + 1>>)
  /\ UNCHANGED <<putVars, allow, list, cur, s3pc, passed, s3end, bucket, faults>>

\* io.EOF at the end of a stream, which goes on with the next object.
ReadEnds ==
  /\ s3pc = "read" /\ dec[2] = ObjectMsgs
  /\ dec' = Nil /\ s3pc' = "next"
  /\ UNCHANGED <<putVars, allow, list, cur, read, passed, s3end, bucket, faults>>

\* In a stream that is cut an error, again and again.
ReadFails ==
  /\ s3pc = "read" /\ dec[3] /\ dec[2] = ObjectMsgs - 1
  /\ passed' = passed \cup {dec[1]}
  /\ UNCHANGED <<putVars, allow, list, cur, dec, s3pc, read, s3end, bucket, faults>>

\* g.dec.Close() of a nil decoder.
CloseGenerator ==
  /\ s3pc \in {"next", "read"}
  /\ s3end' = IF dec = Nil THEN "panic" ELSE s3end
  /\ s3pc' = "closed"
  /\ UNCHANGED <<putVars, allow, list, cur, dec, read, passed, bucket, faults>>

-----------------------------------------------------------------------------
S3Init ==
  /\ signed \in BOOLEAN /\ allow \in BOOLEAN
  /\ uploads = 0 /\ refused = {} /\ lastFile = 0 /\ bucket = << >>
  /\ page = << >> /\ truncated = FALSE /\ cur = -1 /\ marker = 0 /\ dec = Nil
  /\ s3pc = "new" /\ read = << >> /\ passed = {} /\ faults = 0 /\ s3end = "no"

S3Generate == \/ NewS3Generator \/ NextObject \/ NextList \/ ListFails \/ NextEOF
              \/ NextPanics \/ GetResponse \/ GetFails
              \/ ReadMessage \/ ReadEnds \/ ReadFails \/ CloseGenerator
S3Next ==
  \/ OnRotate
  \/ \E is \in Flaws \ {"deleted"} : PutOther(is)
  \/ \E k \in Keys, is \in {"glacier", "deleted"} : Expire(k, is)
  \/ s3end # "panic" /\ S3Generate

S3Spec == S3Init /\ [][S3Next]_s3Vars

-----------------------------------------------------------------------------
(* Properties                                                              *)

S3TypeOK ==
  /\ uploads \in 0 .. MaxObjects /\ refused \subseteq 1 .. uploads
  /\ bucket \in Seq([file : 0 .. MaxObjects, is : Flaws \cup {"good"}])
  /\ lastFile \in 0 .. MaxObjects
  /\ page = Nil \/ page \in Seq(Keys)
  /\ cur \in -1 .. ListMax /\ marker \in 0 .. Len(bucket)
  /\ s3pc \in {"new", "next", "get", "read", "closed"}
  /\ s3end \in {"no", "eof", "panic"}

\* Every file that was rotated is in the bucket once, in order, or its upload
\* returned an error, which Rotate drops: it is not uploaded again.  What
\* lastFile names is there, unless that upload failed (onRotate).
Uploaded ==
  /\ \A k, l \in Keys : k < l /\ bucket[k].file # 0 /\ bucket[l].file # 0
                          => bucket[k].file < bucket[l].file
  /\ \A f \in 1 .. uploads : f \in refused \/ \E k \in Keys : bucket[k].file = f
  /\ lastFile \in Keys \cup {0} \/ refused # {}

\* The messages read of an object.
Seen(k) == {read[i][2] : i \in {j \in DOMAIN read : read[j][1] = k}}

\* Done with: all was read, or Generate returned an error for it or left it
\* out, or it is gone.
Handled(k) == k \in passed \/ Seen(k) = 1 .. ObjectMsgs \/ bucket[k].is = "deleted"

\* Through pages, uploads and deletions that fall between its requests, a
\* reader returns messages in the order of the keys and once each, and of an
\* object it has gone past all, unless Generate returned an error for it or its
\* class is to be ignored (Generate, updateList).
GoesOn ==
  /\ \A i, j \in DOMAIN read : i < j =>
       read[i][1] < read[j][1] \/ (read[i][1] = read[j][1] /\ read[i][2] < read[j][2])
  /\ s3pc \in {"get", "read"} /\ s3end # "panic" =>
       \A k \in Keys : k < page[cur + 1] => Handled(k)
  /\ s3end = "eof" => \A k \in Keys : k <= marker => Handled(k)

\* io.EOF comes when the list was read to its end, and Generate panics only
\* after it, after a failed or an empty list, or in Close between two objects
\* (Generate, Close).
EndsRight ==
  /\ s3end = "eof" => ~truncated /\ page = Nil
  /\ s3end = "panic" => \/ page \in {Nil, << >>} \/ s3pc = "closed"
                        \/ cur + 1 > Len(page)

\* A message is returned only from an object that passed its checks when it
\* was opened: signed, or unsigned where that is allowed (extractSignature,
\* ValidateETag, validClass).
OnlyVerified ==
  \A i \in DOMAIN read :
    LET o == bucket[read[i][1]]
    IN  o.is \notin {"bad", "garbled"} /\ (o.is = "unsigned" => allow)

\* What was rotated can be read from the bucket (onRotate, Generate).
BucketReads == S3TypeOK /\ Uploaded /\ GoesOn /\ EndsRight /\ OnlyVerified

=============================================================================
