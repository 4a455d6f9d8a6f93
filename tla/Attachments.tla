------------------------------ MODULE Attachments ------------------------------
(***************************************************************************)
(* ModelsAttachmentsService: uploaded files and their metadata on disk,    *)
(* and their copies for the model, images in the object store and          *)
(* documents at the file service.  Nothing is ever deleted.                *)
(***************************************************************************)
EXTENDS Naturals, Sequences

CONSTANTS
  Images, Documents,  \* tokens, by the kind that detectKind finds
  Env                 \* what the process' environment may be

VARIABLES
  files,   \* tokens whose file is stored
  meta,    \* meta[a]: "none", "torn", "plain", or "oss" with an ossUrl
  handed,  \* tokens that a client was given
  objects, \* images that the object store holds
  remote,  \* remote[id]: the document behind a file-id
  env      \* "local": USE_LOCAL_IMAGE_URL; "oss", "nokey": without credentials

attachments == <<files, meta, handed, objects, remote, env>>

Tokens == Images \cup Documents

ASSUME AttachmentsAssumption ==
  Images \cap Documents = {} /\ Env \subseteq {"local", "oss", "nokey"}

AttachmentsInit ==
  /\ files = {} /\ handed = {} /\ objects = {}
  /\ meta = [a \in Tokens |-> "none"]
  /\ remote = <<>>
  /\ env \in Env

Resolves(a) == meta[a] \in {"plain", "oss"} /\ a \in files

\* saveUploadedFiles, in one synchronous stretch.
Upload(new) ==
  /\ new # {} /\ \A a \in new : a \notin files
  /\ files' = files \cup new
  /\ meta' = [a \in Tokens |-> IF a \in new THEN "plain" ELSE meta[a]]
  /\ handed' = handed \cup new
  /\ UNCHANGED <<objects, remote, env>>

\* A write fails: what was written stays, no token is handed out.
UploadFails(new) ==
  /\ \A a \in new : a \notin files
  /\ \E whole \in SUBSET new, a \in new :
       /\ a \notin whole
       /\ \E left \in {"none", "torn"} :
            /\ meta' = [b \in Tokens |-> IF b \in whole THEN "plain"
                                         ELSE IF b = a THEN left ELSE meta[b]]
            /\ files' = files \cup whole \cup {a}
  /\ UNCHANGED <<handed, objects, remote, env>>

\* uploadAttachmentToBailian got an id; every upload makes a new one.
PostDocument(a) ==
  /\ remote' = Append(remote, a)
  /\ UNCHANGED <<files, meta, handed, objects, env>>

\* Defect: the status of the answer is not looked at.
PutNothing(a) ==
  /\ meta' = [meta EXCEPT ![a] = "oss"]
  /\ UNCHANGED <<files, handed, objects, remote, env>>
\* putObjectToOss and writeMeta, which keeps the fields that Resolves needs.
PutImage(a) ==
  /\ objects' = objects \cup {a}
  /\ meta' = [meta EXCEPT ![a] = "oss"]
  /\ UNCHANGED <<files, handed, remote, env>>

\* The object is stored, but its address is not: writeMeta has truncated the
\* metadata.
PutImageTears(a) ==
  /\ objects' = objects \cup {a}
  /\ meta' = [meta EXCEPT ![a] = "torn"]
  /\ UNCHANGED <<files, handed, remote, env>>

AttachmentsTypeOK ==
  /\ files \subseteq Tokens /\ handed \subseteq files
  /\ objects \subseteq Images
  /\ meta \in [Tokens -> {"none", "torn", "plain", "oss"}]
  /\ remote \in Seq(Documents)
  /\ env \in Env
=============================================================================
