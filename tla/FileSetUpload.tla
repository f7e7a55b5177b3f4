--------------------------- MODULE FileSetUpload ---------------------------
(***************************************************************************)
(* The upload of a Page's files: one multipart stream with a metadata part *)
(* and then the files, parsed while it arrives in chunks of any size.  The *)
(* collector enforces every limit on what it holds at the moment, so the   *)
(* verdict must not depend on where the network cut the stream, and the    *)
(* bytes in memory never pass the limits.  The manifest is built from what *)
(* was collected and checks it once more.  The ceiling on the whole stream *)
(* leaves room for the headers of any well-formed upload and is left out.  *)
(***************************************************************************)
EXTENDS Naturals, Sequences, Functions

CONSTANTS
    Uploads,        \* uploads a client may send: sequences of parts
    MaxMetadata,    \* MAX_FILE_SET_METADATA_BYTES
    MaxFile,        \* MAX_FILE_BYTES
    MaxPage,        \* MAX_PAGE_BYTES
    MaxFiles        \* MAX_FILES_PER_PAGE

\* A part: its name, the collision key of its file name, whether its media
\* label is acceptable for a part of that name, and its size.
ASSUME UploadAssumption ==
    /\ \A u \in Uploads : u \in Seq(Range(u)) /\ \A i \in DOMAIN u :
          /\ u[i].name \in {"metadata", "file", "other"}
          /\ u[i].media \in BOOLEAN /\ u[i].size \in Nat
    /\ {MaxMetadata, MaxFile, MaxPage, MaxFiles} \subseteq Nat

VARIABLES
    upload,      \* what the client sends
    declared,    \* whether Content-Length agrees with it
    at,          \* part being received; after the last one, the closing boundary
    part,        \* "outside" or "data": whether its headers were accepted
    data,        \* bytes of it held
    metadata,    \* size of the metadata, 0 before it ended
    files,       \* files held: [key, size]
    verdict      \* "none", "accepted", or the problem reported

uploadVars == <<upload, declared, at, part, data, metadata, files, verdict>>

UploadInit ==
    /\ upload \in Uploads
    /\ declared \in BOOLEAN
    /\ at = 1 /\ part = "outside" /\ data = 0
    /\ metadata = 0 /\ files = <<>>
    /\ verdict = "none"

SizeOf(entries) ==
    LET total[i \in 0 .. Len(entries)] ==
            IF i = 0 THEN 0 ELSE total[i - 1] + entries[i].size
    IN  total[Len(entries)]

Current == upload[at]

Receiving == verdict = "none" /\ at <= Len(upload)

Report(problem) ==
    /\ verdict' = problem
    /\ UNCHANGED <<upload, declared, at, part, data, metadata, files>>

----------------------------------------------------------------------------
(* Callbacks of the parser.                                                *)

\* on_part_begin: another part when all the files are there.
PartRefused == Len(files) >= MaxFiles

\* on_headers_finished: metadata first and once, then files of distinct names.
HeadersMalformed ==
    \/ Current.name \notin {"metadata", "file"}
    \/ (metadata = 0 /\ files = <<>>) # (Current.name = "metadata")
    \/ Current.name = "file" /\ \E i \in DOMAIN files : files[i].key = Current.key

Headers ==
    /\ Receiving /\ part = "outside"
    /\ CASE PartRefused -> Report("too large")
         [] ~PartRefused /\ HeadersMalformed -> Report("invalid")
         [] ~PartRefused /\ ~HeadersMalformed /\ ~Current.media -> Report("media")
         [] OTHER -> /\ part' = "data" /\ data' = 0
                     /\ UNCHANGED <<upload, declared, at, metadata, files, verdict>>

\* Mutant: the Page limit forgets what this part already holds.
ExceedsByChunk(n) ==
    IF Current.name = "metadata" THEN data + n > MaxMetadata
    ELSE data + n > MaxFile \/ SizeOf(files) + n > MaxPage

\* on_part_data: limits on the part and on the Page, for what is held and n more.
Exceeds(n) ==
    IF Current.name = "metadata" THEN data + n > MaxMetadata
    ELSE data + n > MaxFile \/ SizeOf(files) + data + n > MaxPage

Data(n) ==
    /\ Receiving /\ part = "data" /\ n <= Current.size - data
    /\ IF Exceeds(n) THEN Report("too large")
       ELSE /\ data' = data + n
            /\ UNCHANGED <<upload, declared, at, part, metadata, files, verdict>>

\* on_part_end: an empty metadata part is malformed, an empty file is a file.
PartEnd ==
    /\ Receiving /\ part = "data" /\ data = Current.size
    /\ IF Current.name = "metadata" /\ data = 0 THEN Report("invalid")
       ELSE /\ at' = at + 1 /\ part' = "outside" /\ data' = 0
            /\ IF Current.name = "metadata"
               THEN metadata' = data /\ UNCHANGED files
               ELSE /\ files' = Append(files, [key |-> Current.key, size |-> data])
                    /\ UNCHANGED metadata
            /\ UNCHANGED <<upload, declared, verdict>>

\* The client goes away in the middle: the closing boundary never arrives.
CutOff == Receiving /\ Report("unfinished")

\* build_file_manifest: the complete snapshot satisfies the same limits.
ManifestBuilds(entries) ==
    /\ Len(entries) \in 1 .. MaxFiles
    /\ \A i, j \in DOMAIN entries : entries[i].key = entries[j].key => i = j
    /\ \A i \in DOMAIN entries : entries[i].size <= MaxFile
    /\ SizeOf(entries) <= MaxPage

\* on_end and the end of parse_file_set_multipart.
Finish ==
    /\ verdict = "none" /\ at > Len(upload)
    /\ IF metadata # 0 /\ files # <<>> /\ declared /\ ManifestBuilds(files)
       THEN Report("accepted") ELSE Report("invalid")

UploadNext ==
    \/ Headers \/ PartEnd \/ CutOff \/ Finish
    \/ \E n \in 1 .. MaxFile + MaxMetadata : Data(n)

UploadSpec == UploadInit /\ [][UploadNext]_uploadVars

----------------------------------------------------------------------------
(* Properties.                                                             *)

\* What the format is meant to be, told of the whole upload at once.
WellFormed ==
    /\ declared
    /\ Len(upload) \in 2 .. MaxFiles + 1
    /\ upload[1].name = "metadata" /\ upload[1].size \in 1 .. MaxMetadata
    /\ \A i \in DOMAIN upload : upload[i].media /\ (i > 1 => upload[i].name = "file")
    /\ ManifestBuilds(Tail(upload))

\* Whatever the chunks were, an upload received to its end is accepted exactly
\* when it is well formed, and nothing past the limits is ever held in memory.
VerdictIgnoresChunks ==
    /\ verdict = "accepted" => WellFormed
    /\ verdict \in {"too large", "media", "invalid"} => ~WellFormed
    /\ (part = "data" /\ Current.name = "metadata") => data <= MaxMetadata
    /\ (part = "data" /\ Current.name = "file") => SizeOf(files) + data <= MaxPage

=============================================================================
