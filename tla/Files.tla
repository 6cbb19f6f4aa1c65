-------------------------------- MODULE Files --------------------------------
(***************************************************************************)
(* Challenge files: a blob in the storage (a directory, or a remote behind  *)
(* rclone) and a row of files. Writing a blob is not atomic, and a call     *)
(* that is dropped leaves the task or the process it started running.       *)
(* FileService::delete has no caller.                                       *)
(***************************************************************************)
EXTENDS Naturals, FiniteSets

CONSTANTS
  Uploads,        \* fresh ids, one for each upload
  Downloads,      \* download requests served at the same time
  Backend,        \* "local" or "rclone"
  StorageFaults,  \* "io": the storage or the table fails, or the caller hangs up
  NoFile

ASSUME FilesAssumption ==
  /\ Backend \in {"local", "rclone"}
  /\ StorageFaults \subseteq {"io"}
  /\ NoFile \notin Uploads

VARIABLES
  blobs,     \* what the storage has of each id
  files,     \* the files table
  upload,    \* next step of each upload
  download   \* the locals of each download; known: its link was given out before it came

file_vars == <<blobs, files, upload, download>>

FilesInit ==
  /\ blobs = [i \in Uploads |-> "none"]
  /\ files = {}
  /\ upload = [i \in Uploads |-> "new"]
  /\ download = [d \in Downloads |-> [step |-> "new", id |-> NoFile, known |-> FALSE]]

UploadGoto(i, from, to) ==
  /\ upload[i] = from
  /\ upload' = [upload EXCEPT ![i] = to]

\* A file that is not too large gets an id; the storage starts to write it.
Upload(i) ==
  /\ UploadGoto(i, "new", "store")
  /\ UNCHANGED <<blobs, files, download>>

\* The directory, the file and its bytes; or rclone and its standard input.
WriteBlob(i) ==
  /\ upload[i] # "new"
  /\ \/ blobs[i] = "none" /\ blobs' = [blobs EXCEPT ![i] = "part"]
     \/ blobs[i] = "part" /\ blobs' = [blobs EXCEPT ![i] = "whole"]
  /\ UNCHANGED <<files, upload, download>>

M_Stored(i) == UploadGoto(i, "store", "save")

\* store returns without an error when all bytes are written.
Stored(i) == blobs[i] = "whole" /\ UploadGoto(i, "store", "save")

StoreBlob(i) ==
  /\ Stored(i)
  /\ UNCHANGED <<blobs, files, download>>

\* The row; then the upload is answered with a link.
SaveFile(i) ==
  /\ UploadGoto(i, "save", "answer")
  /\ files' = files \cup {i}
  /\ UNCHANGED <<blobs, download>>

Answer(i) ==
  /\ UploadGoto(i, "answer", "linked")
  /\ UNCHANGED <<blobs, files, download>>

\* An error is answered, or the admin hangs up: nothing is taken back.
FailUpload(i) ==
  /\ "io" \in StorageFaults
  /\ upload[i] \in {"store", "save", "answer"}
  /\ upload' = [upload EXCEPT ![i] = "failed"]
  /\ UNCHANGED <<blobs, files, download>>
-----------------------------------------------------------------------------
\* Any id may be asked for.
Download(d, i) ==
  /\ download[d].step = "new"
  /\ download' = [download EXCEPT ![d] =
       [step |-> "row", id |-> i, known |-> upload[i] = "linked"]]
  /\ UNCHANGED <<blobs, files, upload>>

DownloadGoto(d, from, to) ==
  /\ download[d].step = from
  /\ download' = [download EXCEPT ![d] =
       [step |-> to, id |-> download[d].id, known |-> download[d].known]]
  /\ UNCHANGED <<blobs, files, upload>>

FindRow(d) == DownloadGoto(d, "row", IF download[d].id \in files THEN "blob" ELSE "not_found")

\* What the storage has is what is sent, whole or not.
Retrieve(d) ==
  LET id == download[d].id
  IN  /\ download[d].step = "blob"
      /\ DownloadGoto(d, "blob", IF blobs[id] = "none" THEN "not_found" ELSE blobs[id])

\* Either read fails. An rclone error that says "not found" of anything, its
\* configuration say, is taken for a missing file.
FailDownload(d) ==
  /\ "io" \in StorageFaults
  /\ \/ DownloadGoto(d, "row", "error")
     \/ DownloadGoto(d, "blob", "error")
     \/ Backend = "rclone" /\ DownloadGoto(d, "blob", "not_found")

\* The answer is sent.
Serve(d) ==
  /\ download[d].step \in {"not_found", "error", "part", "whole"}
  /\ download' = [download EXCEPT ![d] = [step |-> "new", id |-> NoFile, known |-> FALSE]]
  /\ UNCHANGED <<blobs, files, upload>>

FilesNext ==
  \/ \E i \in Uploads :
       \/ Upload(i) \/ WriteBlob(i) \/ StoreBlob(i) \/ SaveFile(i) \/ Answer(i) \/ FailUpload(i)
       \/ \E d \in Downloads : Download(d, i)
  \/ \E d \in Downloads : FindRow(d) \/ Retrieve(d) \/ FailDownload(d) \/ Serve(d)

FilesSpec == FilesInit /\ [][FilesNext]_file_vars
-----------------------------------------------------------------------------
FilesTypeOK ==
  /\ blobs \in [Uploads -> {"none", "part", "whole"}]
  /\ files \subseteq Uploads
  /\ upload \in [Uploads -> {"new", "store", "save", "answer", "linked", "failed"}]
  /\ download \in [Downloads ->
       [step : {"new", "row", "blob", "not_found", "error", "part", "whole"},
        id : Uploads \cup {NoFile}, known : BOOLEAN]]

\* services/files.rs:50-60: the row is saved after the blob, and the two are
\* written by calls that fail alone. No download is ever sent a part of a file,
\* and one that comes after the link was given out finds the file, unless rclone
\* fails.
DownloadsWhole ==
  \A d \in Downloads :
    /\ download[d].step # "part"
    /\ download[d].known /\ download[d].step = "not_found" =>
         Backend = "rclone" /\ "io" \in StorageFaults
=============================================================================
