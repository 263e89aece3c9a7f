----------------------------- MODULE Destinations -----------------------------
(***************************************************************************)
(* One video on its way to a destination that is not mounted: the SFTP,    *)
(* Nextcloud and rsync backends of app/destinations, driven by             *)
(* handle_upload of app/tasks.py.  (The mounted backend is in              *)
(* UploadLedger.)  A file is the sequence of the chunks it holds.          *)
(***************************************************************************)
EXTENDS Naturals, Sequences

CONSTANTS
  Backends,       \* the types of destination to look at
  Length,         \* chunks of the video
  SampleLength,   \* chunks that media.checksum reads from either end
  MaxBreakdowns   \* bound: failures of the network and stops of the process

ASSUME DestinationsAssumption ==
  /\ Backends \subseteq {"sftp", "nextcloud", "rsync"}
  /\ Length \in Nat \ {0} /\ SampleLength \in Nat \ {0}
  /\ MaxBreakdowns \in Nat

VARIABLES
  backend,     \* the destination's type
  remote,      \* the file under its final name
  partial,     \* the ".part" file
  record,      \* UploadedClip.status
  step,        \* where the upload job stands
  offset,      \* start_offset, then the chunks sent
  stored,      \* the final name once held the whole video
  breakdowns

remoteFiles == <<remote, partial, stored>>
destVars    == <<backend, remote, partial, record, step, offset, stored, breakdowns>>

Video    == [i \in 1 .. Length |-> i]
NoRemote == << >>

DestInit ==
  /\ backend \in Backends
  /\ remote = NoRemote /\ partial = NoRemote /\ stored = FALSE
  /\ record = "none" /\ step = "idle" /\ offset = 0
  /\ breakdowns = 0

-----------------------------------------------------------------------------
(***************************************************************************)
(* What the backends compare.  sha256 tells any two inputs apart; the      *)
(* checksum in the ledger is of the size (one piece of text, 0 here) and   *)
(* of samples from both ends, the remote digest is of the whole file.      *)
(***************************************************************************)
Sha256(input) == input
SizeText      == 0

SampledChecksum(f) ==
  Sha256(<<SizeText>>
         \o SubSeq(f, 1, SampleLength)
         \o IF Len(f) > 2 * SampleLength
              THEN SubSeq(f, Len(f) - SampleLength + 1, Len(f))
              ELSE << >>)

RemoteMatches == Len(remote) = Length /\ Sha256(remote) = SampledChecksum(Video)

-----------------------------------------------------------------------------
(***************************************************************************)
(* The upload job around the backend.                                      *)
(***************************************************************************)
Advance(to) == step' = to /\ UNCHANGED <<backend, breakdowns>>

Store(f) == remote' = f /\ stored' = (stored \/ f = Video)

BeginUpload ==
  /\ step = "idle" /\ record # "done"
  /\ record' = "uploading"
  /\ Advance("look")
  /\ UNCHANGED <<remoteFiles, offset>>

LookAtRemote ==
  /\ step = "look"
  /\ IF RemoteMatches THEN record' = "done" /\ Advance("idle")
                      ELSE Advance("offset") /\ UNCHANGED record
  /\ UNCHANGED <<remoteFiles, offset>>

\* Seeded fault: rsync is called without --checksum.
RsyncSkips_Never  == FALSE

\* get_resume_offset; rsync has none.
RemoteOffset ==
  IF backend = "rsync" THEN 0
  ELSE IF Len(partial) < Length THEN Len(partial) ELSE Length

FindOffset ==
  /\ step = "offset"
  /\ offset' = RemoteOffset
  /\ Advance("upload")
  /\ UNCHANGED <<remoteFiles, record>>

\* Verification after the transfer, and the outcome in the ledger.
VerifyRemote ==
  /\ step = "verify"
  /\ record' = IF RemoteMatches THEN "done" ELSE "error"
  /\ Advance("idle")
  /\ UNCHANGED <<remoteFiles, offset>>

-----------------------------------------------------------------------------
(* SFTP: append to the partial file, remove the final one, rename.           *)

Uploading(b) == step = "upload" /\ backend = b

\* Nothing left to send: the backend returns, and renames nothing.
SftpComplete ==
  /\ Uploading("sftp") /\ offset >= Length
  /\ Advance("verify")
  /\ UNCHANGED <<remoteFiles, record, offset>>

SftpOpen ==
  /\ Uploading("sftp") /\ offset < Length
  /\ partial' = IF offset > 0 THEN partial ELSE NoRemote
  /\ Advance("send")
  /\ UNCHANGED <<remote, stored, record, offset>>

SftpSend ==
  /\ step = "send" /\ offset < Length
  /\ partial' = Append(partial, offset + 1)
  /\ offset' = offset + 1
  /\ UNCHANGED <<backend, remote, stored, record, step, breakdowns>>

SftpRemove ==
  /\ step = "send" /\ offset >= Length
  /\ remote' = NoRemote
  /\ Advance("rename")
  /\ UNCHANGED <<partial, stored, record, offset>>

SftpRename ==
  /\ step = "rename"
  /\ Store(partial) /\ partial' = NoRemote
  /\ Advance("verify")
  /\ UNCHANGED <<record, offset>>

-----------------------------------------------------------------------------
(* Nextcloud: PUT the partial file, MOVE it over the final one.              *)

\* The server takes a ranged PUT, or refuses it and the upload starts over.
NextcloudPut ==
  /\ Uploading("nextcloud")
  /\ partial' = SubSeq(partial, 1, offset) \o SubSeq(Video, offset + 1, Length)
  /\ Advance("move")
  /\ UNCHANGED <<remote, stored, record, offset>>

NextcloudRefuses ==
  /\ Uploading("nextcloud") /\ offset > 0
  /\ offset' = 0
  /\ UNCHANGED <<backend, remoteFiles, record, step, breakdowns>>

NextcloudMove ==
  /\ step = "move"
  /\ Store(partial) /\ partial' = NoRemote
  /\ Advance("verify")
  /\ UNCHANGED <<record, offset>>

-----------------------------------------------------------------------------
(* rsync: straight to the final name, which --partial lets show what there   *)
(* is of an interrupted transfer; --checksum leaves an equal file alone.     *)

RsyncSkips == remote = Video

RsyncTransfer ==
  /\ Uploading("rsync")
  /\ IF RsyncSkips THEN UNCHANGED <<remote, stored>> ELSE Store(Video)
  /\ Advance("verify")
  /\ UNCHANGED <<partial, record, offset>>

-----------------------------------------------------------------------------
(***************************************************************************)
(* What breaks: the connection or the process.  A transfer that breaks has *)
(* stored some of what was sent.                                           *)
(***************************************************************************)
LeftBehind ==
  \/ /\ Uploading("nextcloud")
     /\ \E n \in offset .. Length :
          partial' = SubSeq(partial, 1, offset) \o SubSeq(Video, offset + 1, n)
     /\ UNCHANGED <<remote, stored>>
  \/ /\ Uploading("rsync") /\ ~RsyncSkips
     /\ \E n \in 1 .. Length - 1 : Store(SubSeq(Video, 1, n))
     /\ UNCHANGED partial
  \/ UNCHANGED remoteFiles

\* A failed look at the existing file leads to a transfer, any other failure is
\* recorded; a stop or a cancellation leaves the ledger as it is.
UploadBreaks ==
  /\ step \in {"look", "offset", "upload", "send", "rename", "move", "verify"}
  /\ breakdowns < MaxBreakdowns
  /\ breakdowns' = breakdowns + 1
  /\ LeftBehind
  /\ \/ step = "look" /\ step' = "offset" /\ UNCHANGED record
     \/ step \notin {"look", "offset"} /\ step' = "idle" /\ record' = "error"
     \/ step' = "idle" /\ UNCHANGED record
  /\ UNCHANGED <<backend, offset>>

DestNext ==
  \/ BeginUpload \/ LookAtRemote \/ FindOffset \/ VerifyRemote
  \/ SftpComplete \/ SftpOpen \/ SftpSend \/ SftpRemove \/ SftpRename
  \/ NextcloudPut \/ NextcloudRefuses \/ NextcloudMove
  \/ RsyncTransfer
  \/ UploadBreaks

DestSpec == DestInit /\ [][DestNext]_destVars

-----------------------------------------------------------------------------
(***************************************************************************)
(* Properties.                                                             *)
(***************************************************************************)

\* The types of the remote files, the ledger row and the job.
DestTypeOK ==
  /\ backend \in Backends
  /\ remote \in Seq(1 .. Length) /\ partial \in Seq(1 .. Length)
  /\ record \in {"none", "uploading", "done", "error"}
  /\ step \in {"idle", "look", "offset", "upload", "send", "rename", "move", "verify"}
  /\ offset \in 0 .. Length
  /\ stored \in BOOLEAN
  /\ breakdowns \in 0 .. MaxBreakdowns

\* A video that once was on the destination is there for good, if only under
\* its partial name: sending it again, which every later import does as long as
\* the ledger says "error", never leaves a moment at which a failure would cost
\* the copy.
StoredSurvives == stored => remote = Video \/ partial = Video

\* README: videos are uploaded "to one or more destinations (Nextcloud, SFTP, or
\* a local/NAS path)"; base.py: remote_file_matches is for the file that "matches
\* size and sha256".  A job that finds the whole video at the destination after
\* its transfer does not record a failure.
WholeCopyIsAccepted ==
  [][step = "verify" /\ remote = Video /\ breakdowns' = breakdowns
       => record' # "error"]_destVars
=============================================================================
