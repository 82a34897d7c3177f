----------------------------- MODULE BlobUpload -----------------------------
(***************************************************************************)
(* Files on their way: the sender's worker encrypts a file, uploads it in  *)
(* chunks to a blob of the server and sends a message that names the blob; *)
(* the recipient downloads the blob and saves the file.  A blob is the     *)
(* sequence of chunks that were appended to it.                            *)
(***************************************************************************)
EXTENDS Naturals, Sequences

CONSTANTS
  Owner,        \* devices that upload
  BlobId,       \* blobs the server can make: 1 .. n
  FileSize,     \* sizes of files that users pick
  MaxFile,      \* MAX_FILE_BYTES of the client
  MaxBlob,      \* MAX_BLOB_BYTES of the server
  MaxChunk,     \* MAX_BLOB_CHUNK_BYTES of the server
  ChunkSize,    \* CHUNK_SIZE of the client
  Overhead      \* what encryption adds: a nonce and a tag

ASSUME BlobAssumption ==
  /\ BlobId \subseteq Nat /\ FileSize \subseteq Nat
  /\ {MaxFile, MaxBlob, Overhead} \subseteq Nat
  /\ ChunkSize \in 1 .. MaxChunk

VARIABLES
  blobs,     \* table blobs: the owner and the data of each blob made so far
  upload,    \* the send worker of each device
  fileSent,  \* the file messages that were sent
  refused,   \* the sizes of the files that the server called too large
  download,  \* the blobs that save workers are fetching
  saved      \* the files that were saved

blobVars == <<blobs, upload, fileSent, refused, download, saved>>

NoUpload == [at |-> "idle", size |-> 0, blob |-> 0, next |-> 1]

\* A chunk is the n-th of its owner's ciphertext; a blob in one piece is one chunk.
Chunk == [from : Owner, n : Nat, bytes : Nat]

BlobTypeOK ==
  /\ blobs \in Seq([owner : Owner, data : Seq(Chunk)])
  /\ DOMAIN blobs \subseteq BlobId
  /\ upload \in [Owner -> [at : {"idle", "picked", "encrypted", "created"},
                           size : FileSize \union {0}, blob : BlobId \union {0}, next : Nat]]
  /\ fileSent \subseteq [blob : BlobId, size : FileSize]
  /\ refused \subseteq FileSize
  /\ download \subseteq fileSent
  /\ saved \subseteq fileSent

BlobInit ==
  /\ blobs = <<>>
  /\ upload = [d \in Owner |-> NoUpload]
  /\ fileSent = {} /\ refused = {} /\ download = {} /\ saved = {}

-----------------------------------------------------------------------------
Bytes(data) ==
  LET sum[n \in 0 .. Len(data)] == IF n = 0 THEN 0 ELSE sum[n - 1] + data[n].bytes
  IN  sum[Len(data)]

\* encrypt_bytes: a nonce before the ciphertext, a tag behind it.
CipherSize(size) == size + Overhead

\* encrypted_blob.chunks(CHUNK_SIZE): the size of the n-th, 0 behind the last.
ChunkBytes(size, n) ==
  LET before == (n - 1) * ChunkSize
  IN  IF before >= CipherSize(size) THEN 0
      ELSE IF before + ChunkSize > CipherSize(size) THEN CipherSize(size) - before
      ELSE ChunkSize

UploadEnds(d) == upload' = [upload EXCEPT ![d] = NoUpload]

\* send_file: the size is checked by the metadata, and the worker is started.
SendFile(d, size) ==
  /\ upload[d] = NoUpload
  /\ size <= MaxFile
  /\ upload' = [upload EXCEPT ![d] = [NoUpload EXCEPT !.at = "picked"]]
  /\ UNCHANGED <<blobs, fileSent, refused, download, saved>>

\* run_send_flow: the file is read, and may have another size by now.
ReadFile(d, size) ==
  /\ upload[d].at = "picked"
  /\ IF size <= MaxFile
     THEN upload' = [upload EXCEPT ![d] = [NoUpload EXCEPT !.at = "encrypted", !.size = size]]
     ELSE UploadEnds(d)
  /\ UNCHANGED <<blobs, fileSent, refused, download, saved>>

\* create_blob; when its answer is lost the blob stays behind.
CreateBlob(d, answered) ==
  /\ upload[d].at = "encrypted"
  /\ Len(blobs) + 1 \in BlobId
  /\ blobs' = Append(blobs, [owner |-> d, data |-> <<>>])
  /\ IF answered
     THEN upload' = [upload EXCEPT ![d].at = "created", ![d].blob = Len(blobs')]
     ELSE UploadEnds(d)
  /\ UNCHANGED <<fileSent, refused, download, saved>>

\* UPDATE blobs SET data = data || chunk of the owner's blob
Appended(d) ==
  LET b == upload[d].blob
      n == upload[d].next
  IN  [blobs EXCEPT ![b].data = IF blobs[b].owner = d
         THEN Append(@, [from |-> d, n |-> n, bytes |-> ChunkBytes(upload[d].size, n)]) ELSE @]

\* Mutant of AppendChunk: a chunk whose answer was lost is sent again.
AppendChunkAgain(d, answered) ==
  /\ upload[d].at = "created"
  /\ ChunkBytes(upload[d].size, upload[d].next) > 0
  /\ blobs' = Appended(d)
  /\ LET tooLarge == Bytes(blobs'[upload[d].blob].data) > MaxBlob
     IN  /\ refused' = IF tooLarge THEN refused \union {upload[d].size} ELSE refused
         /\ IF tooLarge THEN UploadEnds(d)
            ELSE upload' = [upload EXCEPT ![d].next = IF answered THEN @ + 1 ELSE @]
  /\ UNCHANGED <<fileSent, download, saved>>

\* Mutant of AppendChunk: an error does not end the upload.
AppendChunkGoesOn(d, answered) ==
  /\ upload[d].at = "created"
  /\ ChunkBytes(upload[d].size, upload[d].next) > 0
  /\ blobs' = Appended(d)
  /\ refused' = IF Bytes(blobs'[upload[d].blob].data) > MaxBlob THEN refused \union {upload[d].size}
                ELSE refused
  /\ upload' = [upload EXCEPT ![d].next = IF answered THEN @ + 1 ELSE @]
  /\ UNCHANGED <<fileSent, download, saved>>

\* append_blob_chunk: the chunk is stored before the size is looked at.  The first error,
\* a lost answer among them, ends the upload.
AppendChunk(d, answered) ==
  /\ upload[d].at = "created"
  /\ ChunkBytes(upload[d].size, upload[d].next) > 0
  /\ blobs' = Appended(d)
  /\ LET tooLarge == Bytes(blobs'[upload[d].blob].data) > MaxBlob
     IN  /\ refused' = IF tooLarge THEN refused \union {upload[d].size} ELSE refused
         /\ IF answered /\ ~tooLarge
            THEN upload' = [upload EXCEPT ![d].next = @ + 1]
            ELSE UploadEnds(d)
  /\ UNCHANGED <<fileSent, download, saved>>

\* All chunks are appended, and the message that names the blob is sent, or is lost.
SendReference(d, stored) ==
  /\ upload[d].at = "created"
  /\ ChunkBytes(upload[d].size, upload[d].next) = 0
  /\ fileSent' = IF stored THEN fileSent \union {[blob |-> upload[d].blob, size |-> upload[d].size]}
                 ELSE fileSent
  /\ UploadEnds(d)
  /\ UNCHANGED <<blobs, refused, download, saved>>

\* A request fails before it reaches the server, or the program ends.
UploadAborts(d) ==
  /\ upload[d] # NoUpload
  /\ UploadEnds(d)
  /\ UNCHANGED <<blobs, fileSent, refused, download, saved>>

\* upload_blob and upload_blob_bytes: a blob in one piece, checked before it is stored.
UploadWhole(d, size) ==
  /\ Len(blobs) + 1 \in BlobId
  /\ CipherSize(size) <= MaxBlob
  /\ blobs' = Append(blobs, [owner |-> d, data |-> <<[from |-> d, n |-> 1, bytes |-> CipherSize(size)]>>])
  /\ UNCHANGED <<upload, fileSent, refused, download, saved>>

\* save_file_message: the recipient starts to fetch the blob.
SaveStart(file) ==
  /\ file \in fileSent
  /\ download' = download \union {file}
  /\ UNCHANGED <<blobs, upload, fileSent, refused, saved>>

\* decrypt_bytes: only the ciphertext as the sender made it opens.
Decrypts(file) ==
  LET data == blobs[file.blob].data
  IN  /\ \A n \in DOMAIN data : data[n].n = n /\ data[n].from = blobs[file.blob].owner
      /\ Bytes(data) = CipherSize(file.size)

\* run_save_file_flow: what decrypts is written to the file the user chose.
SaveEnd(file, answered) ==
  /\ file \in download
  /\ download' = download \ {file}
  /\ saved' = IF answered /\ Decrypts(file) THEN saved \union {file} ELSE saved
  /\ UNCHANGED <<blobs, upload, fileSent, refused>>

BlobNext ==
  \/ \E d \in Owner :
       \/ \E size \in FileSize : SendFile(d, size) \/ ReadFile(d, size) \/ UploadWhole(d, size)
       \/ \E answered \in BOOLEAN :
            CreateBlob(d, answered) \/ AppendChunk(d, answered) \/ SendReference(d, answered)
       \/ UploadAborts(d)
  \/ \E file \in fileSent : SaveStart(file) \/ \E answered \in BOOLEAN : SaveEnd(file, answered)

-----------------------------------------------------------------------------
\* A file message that was sent names a blob with all chunks of its file, each once and in
\* order, and it stays so: whatever answers were lost, the recipient can save the file.
ReferencedComplete == \A file \in fileSent : Decrypts(file)

\* The server keeps at most one chunk above its limit, though it stores before it checks,
\* and calls only files too large that are within the overhead of encryption of it.
BlobBounded ==
  /\ \A b \in DOMAIN blobs : Bytes(blobs[b].data) <= MaxBlob + ChunkSize
  /\ \A size \in refused : MaxBlob < CipherSize(size) /\ size <= MaxFile
=============================================================================
