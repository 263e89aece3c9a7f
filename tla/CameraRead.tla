----------------------------- MODULE CameraRead -----------------------------
(***************************************************************************)
(* Reading a camera file over the network (RemoteFile in                   *)
(* app/camera_agents.py, Gateway and CameraInventory in                    *)
(* agent/camera_agent.py). The server knows the file as the manifest has   *)
(* it; every range request names that identity, the agent compares it with *)
(* its own table and the open file, and lends one of its few streams until *)
(* its handler has ended; at the end of the file a HEAD request repeats    *)
(* the comparison. Meanwhile the file may be rewritten or the camera       *)
(* unplugged. One file of FileLength parts; its identity is its version.       *)
(***************************************************************************)
EXTENDS Naturals, FiniteSets

CONSTANTS
  Readers,      \* the server's threads
  FileLength,       \* parts of the file
  Streams,      \* what the agent lends at a time
  MaxVersions,  \* bound on rewrites
  MaxBreaks     \* bound on lost connections and cameras

ASSUME ReadAssumption ==
  /\ FileLength \in Nat \ {0} /\ Streams \in Nat \ {0} /\ MaxVersions \in Nat \ {0}
  /\ MaxBreaks \in Nat /\ IsFiniteSet(Readers)

VARIABLES
  cardFile,      \* on the card: version, and is the card there?
  table,     \* the agent's inventory: the version, 0 for none
  manifest,  \* the server's copy, 0 when the agent is offline
  reader,    \* each RemoteFile: its step, the identity it wants, position, versions of the parts read
  lent,      \* streams whose handler has not ended, per reader
  breaks

readVars == <<cardFile, table, manifest, reader, lent, breaks>>

Closed == [pc |-> "closed", want |-> 0, position |-> 0, got |-> {}]

ReadTypeOK ==
  /\ cardFile \in [version : 1..MaxVersions, present : BOOLEAN]
  /\ {table, manifest} \subseteq 0..MaxVersions
  /\ reader \in [Readers -> [pc : {"closed", "open", "streams", "checks", "whole"}, want : 0..MaxVersions,
                             position : 0..FileLength, got : SUBSET (1..MaxVersions)]]
  /\ lent \in [Readers -> 0..Streams] /\ breaks \in 0..MaxBreaks

ReadInit ==
  /\ cardFile = [version |-> 1, present |-> TRUE] /\ table = 0 /\ manifest = 0
  /\ reader = [r \in Readers |-> Closed] /\ lent = [r \in Readers |-> 0] /\ breaks = 0

AgentLoss == breaks < MaxBreaks /\ breaks' = breaks + 1

-----------------------------------------------------------------------------
(* The card, the inventory and the manifest *)

Rewrite ==
  /\ cardFile.present /\ cardFile.version < MaxVersions
  /\ cardFile' = [cardFile EXCEPT !.version = @ + 1]
  /\ UNCHANGED <<table, manifest, reader, lent, breaks>>

TakeCamera ==
  /\ cardFile.present /\ AgentLoss /\ cardFile' = [cardFile EXCEPT !.present = FALSE]
  /\ UNCHANGED <<table, manifest, reader, lent>>

ReturnCamera ==
  /\ ~cardFile.present /\ cardFile' = [cardFile EXCEPT !.present = TRUE]
  /\ UNCHANGED <<table, manifest, reader, lent, breaks>>

\* scan: a failed walk empties the table.
Walk ==
  /\ table' = IF cardFile.present THEN cardFile.version ELSE 0
  /\ UNCHANGED <<cardFile, manifest, reader, lent, breaks>>

\* tick: a manifest, or an agent that does not answer.
Tick ==
  /\ \/ manifest' = table /\ UNCHANGED breaks
     \/ manifest' = 0 /\ AgentLoss
  /\ UNCHANGED <<cardFile, table, reader, lent>>

-----------------------------------------------------------------------------
(* RemoteFile *)

OpenRemote(r) ==
  /\ reader[r].pc = "closed" /\ manifest # 0
  /\ reader' = [reader EXCEPT ![r] = [Closed EXCEPT !.pc = "open", !.want = manifest]]
  /\ UNCHANGED <<cardFile, table, manifest, lent, breaks>>

Close(r) == reader' = [reader EXCEPT ![r] = Closed]

\* The streams that the agent has lent: the first, second, ... of each thread.
LentStreams == {s \in Readers \X (1..Streams) : s[2] <= lent[s[1]]}
InUse == Cardinality(LentStreams)

\* open_file: the identity asked for is that of the table and of the open file.
SameOpenFile(want) == cardFile.present /\ table = want /\ cardFile.version = want

\* _request; the agent's handler takes a stream.
Request(r) ==
  /\ reader[r].pc = "open" /\ reader[r].position < FileLength
  /\ IF SameOpenFile(reader[r].want) /\ InUse < Streams
     THEN reader' = [reader EXCEPT ![r].pc = "streams"] /\ lent' = [lent EXCEPT ![r] = @ + 1]
     ELSE Close(r) /\ UNCHANGED lent
  /\ UNCHANGED <<cardFile, table, manifest, breaks>>

\* The next part of an open stream, or its end when the card is gone.
ReadPart(r) ==
  /\ reader[r].pc = "streams"
  /\ IF cardFile.present
     THEN reader' = [reader EXCEPT ![r].position = @ + 1, ![r].got = @ \cup {cardFile.version},
                       ![r].pc = IF reader[r].position + 1 = FileLength THEN "checks" ELSE @]
     ELSE Close(r)
  /\ UNCHANGED <<cardFile, table, manifest, lent, breaks>>

\* Fingerprints read the first and the last part: a seek closes the response.
Seek(r) ==
  /\ reader[r].pc = "streams" /\ reader[r].position < FileLength - 1
  /\ reader' = [reader EXCEPT ![r].pc = "open", ![r].position = FileLength - 1]
  /\ UNCHANGED <<cardFile, table, manifest, lent, breaks>>

\* An interrupted connection: AgentUnavailable, the caller tries again later.
Break(r) ==
  /\ reader[r].pc \in {"streams", "checks"} /\ AgentLoss /\ Close(r)
  /\ UNCHANGED <<cardFile, table, manifest, lent>>

\* _check at the end of the file: the HEAD request needs a stream for a moment, too.
EndHolds_Assumed(want) == TRUE
EndHolds(want) == SameOpenFile(want)
CheckEnd(r) ==
  /\ reader[r].pc = "checks"
  /\ IF EndHolds(reader[r].want) /\ InUse < Streams
     THEN reader' = [reader EXCEPT ![r].pc = "whole"]
     ELSE Close(r)
  /\ UNCHANGED <<cardFile, table, manifest, lent, breaks>>

Finish(r) ==
  /\ reader[r].pc = "whole" /\ Close(r)
  /\ UNCHANGED <<cardFile, table, manifest, lent, breaks>>

\* The agent's handler has sent everything or noticed that nobody listens.
HandlerEnds(r) ==
  /\ lent[r] > (IF reader[r].pc = "streams" THEN 1 ELSE 0)
  /\ lent' = [lent EXCEPT ![r] = @ - 1]
  /\ UNCHANGED <<cardFile, table, manifest, reader, breaks>>

ReadNext ==
  \/ Rewrite \/ TakeCamera \/ ReturnCamera \/ Walk \/ Tick
  \/ \E r \in Readers : \/ OpenRemote(r) \/ Request(r) \/ ReadPart(r) \/ Seek(r) \/ Break(r)
                        \/ CheckEnd(r) \/ Finish(r) \/ HandlerEnds(r)

ReadSpec == ReadInit /\ [][ReadNext]_readVars

-----------------------------------------------------------------------------
(* Properties *)

\* A file that was read to its end is the one file the manifest promised: no part is of another
\* version, however often the request was repeated and the file rewritten in between.
ReadsOneVersion == \A r \in Readers : reader[r].pc = "whole" => reader[r].got = {reader[r].want}
=============================================================================
