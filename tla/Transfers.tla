----------------------------- MODULE Transfers -----------------------------
(***************************************************************************)
(* What a Stream is opened for: a file's download or upload                *)
(* (condr-client/src/transfer.rs and condr-server/src/server/streams.rs),  *)
(* or a forwarded connection, whose two ends may do anything with it       *)
(* (Streams).                                                              *)
(*                                                                         *)
(* Both transfers have the same shape: the end with the file writes it and *)
(* finishes; the other reads to the end into a temporary file, puts that   *)
(* in place and finishes in turn.                                          *)
(***************************************************************************)
EXTENDS Streams

VARIABLES
    job,        \* per end and transfer: where its thread stands
    temp,       \* bytes in the receiver's temporary file
    placed,     \* bytes in the file it put in place
    cancelled,  \* TransferCancel.cancelled
    reported    \* what the Client's transfer returned: none, ok or failed

jobVars == <<job, temp, placed, cancelled, reported>>
allVars == <<vars, jobVars>>

NoFile == -1

IsTransfer(s) == setting.targets[s] # "forward"
Sender(s)     == IF setting.targets[s] = "upload" THEN "client" ELSE "server"
Receiver(s)   == Peer(Sender(s))
Size(s)       == setting.bytes[Sender(s)]

TInit ==
    /\ Init
    /\ job = [e \in Ends |-> [s \in Numbers |-> "idle"]]
    /\ temp = [s \in Numbers |-> NoFile]
    /\ placed = [s \in Numbers |-> NoFile]
    /\ cancelled = [s \in Numbers |-> FALSE]
    /\ reported = [s \in Numbers |-> "none"]

At(e, s, stage) == IsTransfer(s) /\ job[e][s] = stage
Go(e, s, stage) == job' = [job EXCEPT ![e][s] = stage]
Ok(e, s)     == reported' = IF e = "client" THEN [reported EXCEPT ![s] = "ok"] ELSE reported
Fails(e, s)  ==
    /\ Go(e, s, "leaving")
    /\ reported' = IF e = "client" THEN [reported EXCEPT ![s] = "failed"] ELSE reported

(* The thread calls into its Stream and nothing else of the engine moves.  *)
Engine(e, st) ==
    /\ Set(e, st)
    /\ UNCHANGED <<held, asked, wire, up, reader, writer, pinged, setting>>

-----------------------------------------------------------------------------
(* Both ends of a transfer begin.                                          *)

(* download and upload: opener.open, and attaching the token; a download   *)
(* waits for the answer, an upload writes at once.                         *)
OpenTransfer ==
    LET s == state["client"].highest + 1 IN
    /\ s \in Numbers /\ Open
    /\ IF IsTransfer(s)
       THEN Go("client", s, IF Sender(s) = "client" THEN "writing" ELSE "opening")
       ELSE UNCHANGED job
    /\ UNCHANGED <<temp, placed, cancelled, reported>>

(* The Server's worker: no Workspace or no such file refuses, and the      *)
(* worker returns; otherwise it accepts, an upload with its file created.  *)
AcceptTransfer(s) ==
    /\ IsTransfer(s) /\ Accept(s)
    /\ Go("server", s, IF Sender(s) = "server" THEN "writing" ELSE "reading")
    /\ temp' = IF Sender(s) = "server" THEN temp ELSE [temp EXCEPT ![s] = 0]
    /\ UNCHANGED <<placed, cancelled, reported>>

RefuseTransfer(s) ==
    /\ IsTransfer(s) /\ Refuse(s)
    /\ Go("server", s, "leaving")
    /\ UNCHANGED <<temp, placed, cancelled, reported>>

(* Its thread does not start, or panics.                                   *)
WorkerFails(s) ==
    /\ "server" \in setting.gives_up
    /\ IsTransfer(s) /\ s \in asked
    /\ Release("server", s)
    /\ Go("server", s, "gone")
    /\ UNCHANGED <<temp, placed, cancelled, reported>>

(* Stream::opened: the answer, or the failure; then the temporary file.    *)
Opened(s) ==
    /\ At("client", s, "opening")
    /\ state["client"].entry[s].opened
    /\ Go("client", s, "reading")
    /\ temp' = [temp EXCEPT ![s] = 0]
    /\ UNCHANGED <<vars, placed, cancelled, reported>>

NotOpened(s) ==
    /\ At("client", s, "opening")
    /\ ~state["client"].entry[s].opened /\ Failure(state["client"], s)
    /\ Fails("client", s)
    /\ UNCHANGED <<vars, temp, placed, cancelled>>

-----------------------------------------------------------------------------
(* The sending thread.                                                     *)

Send(s) ==
    LET e == Sender(s)
        size == Taken(state[e], s, Size(s) - wrote[e][s]) IN
    /\ At(e, s, "writing")
    /\ wrote[e][s] < Size(s)
    /\ CanWrite(state[e], s)
    /\ Engine(e, Written(state[e], s, size))
    /\ wrote' = [wrote EXCEPT ![e][s] = @ + size]
    /\ UNCHANGED jobVars

(* The write fails with the Stream.                                        *)
SendFails(s) ==
    LET e == Sender(s) IN
    /\ At(e, s, "writing")
    /\ wrote[e][s] < Size(s) /\ Failure(state[e], s)
    /\ Fails(e, s)
    /\ UNCHANGED <<vars, temp, placed, cancelled>>

(* The file read to its end.                                               *)
SendEnds(s) ==
    LET e == Sender(s) IN
    /\ At(e, s, "writing")
    /\ wrote[e][s] = Size(s)
    /\ Engine(e, FinishQueued(state[e], s))
    /\ Go(e, s, "confirming")
    /\ UNCHANGED <<wrote, temp, placed, cancelled, reported>>

(* "while stream.read()?.is_some() {}": the receiver's Finish, or failure. *)
Confirmed(s) ==
    LET e == Sender(s) IN
    /\ At(e, s, "confirming")
    /\ ReadResult(state[e], s) = "end"
    /\ Go(e, s, "leaving")
    /\ Ok(e, s)
    /\ UNCHANGED <<vars, temp, placed, cancelled>>

NotConfirmed(s) ==
    LET e == Sender(s) IN
    /\ At(e, s, "confirming")
    /\ ReadResult(state[e], s) = "failure"
    /\ Fails(e, s)
    /\ UNCHANGED <<vars, temp, placed, cancelled>>

-----------------------------------------------------------------------------
(* The receiving thread.                                                   *)

ReceiveChunk(s) ==
    LET e == Receiver(s) IN
    /\ At(e, s, "reading")
    /\ ReadResult(state[e], s) = "chunk"
    /\ Engine(e, ReadChunk(state[e], s))
    /\ temp' = [temp EXCEPT ![s] = @ + Head(state[e].entry[s].inbound).size]
    /\ UNCHANGED <<wrote, job, placed, cancelled, reported>>

ReceiveEnds(s) ==
    LET e == Receiver(s) IN
    /\ At(e, s, "reading")
    /\ ReadResult(state[e], s) = "end"
    /\ Go(e, s, "placing")
    /\ UNCHANGED <<vars, temp, placed, cancelled, reported>>

ReceiveFails(s) ==
    LET e == Receiver(s) IN
    /\ At(e, s, "reading")
    /\ ReadResult(state[e], s) = "failure"
    /\ Fails(e, s)
    /\ UNCHANGED <<vars, temp, placed, cancelled>>

(* The temporary file is synced and takes the destination's name; only     *)
(* then is the Stream finished.                                            *)
Place(s) ==
    LET e == Receiver(s) IN
    /\ At(e, s, "placing")
    /\ placed' = [placed EXCEPT ![s] = temp[s]]
    /\ temp' = [temp EXCEPT ![s] = NoFile]
    /\ Engine(e, FinishQueued(state[e], s))
    /\ Go(e, s, "leaving")
    /\ Ok(e, s)
    /\ UNCHANGED <<wrote, cancelled>>

(* This end cannot go on: its file, or for an upload its Workspace, is     *)
(* gone or full.  It resets the Stream.                                    *)
GoesOnWithFile == {"writing", "reading", "placing"}
FileFails(e, s) ==
    /\ e \in setting.gives_up
    /\ IsTransfer(s) /\ job[e][s] \in GoesOnWithFile
    /\ Engine(e, Reset(state[e], s))
    /\ Fails(e, s)
    /\ UNCHANGED <<wrote, temp, placed, cancelled>>

-----------------------------------------------------------------------------
(* The thread returns: what is left of its temporary file is removed, and  *)
(* the handle dropped.                                                     *)
Leave(e, s) ==
    /\ At(e, s, "leaving")
    /\ Release(e, s)
    /\ Go(e, s, "gone")
    /\ temp' = IF e = Receiver(s) THEN [temp EXCEPT ![s] = NoFile] ELSE temp
    /\ UNCHANGED <<placed, cancelled, reported>>

(* TransferCancel::cancel, from another thread, at any time.               *)
Cancel(s) ==
    /\ "client" \in setting.gives_up
    /\ IsTransfer(s) /\ ~cancelled[s]
    /\ job["client"][s] \notin {"idle", "gone"}
    /\ cancelled' = [cancelled EXCEPT ![s] = TRUE]
    /\ Engine("client", Reset(state["client"], s))
    /\ UNCHANGED <<wrote, job, temp, placed, reported>>

-----------------------------------------------------------------------------
(* The thread of end e: the Client's transfer, or the Server's worker.     *)
ThreadStep(e, s) ==
    \/ e = "server" /\ (AcceptTransfer(s) \/ RefuseTransfer(s))
    \/ e = "client" /\ (Opened(s) \/ NotOpened(s))
    \/ e = Sender(s) /\ (Send(s) \/ SendFails(s) \/ SendEnds(s) \/ Confirmed(s) \/ NotConfirmed(s))
    \/ e = Receiver(s) /\ (ReceiveChunk(s) \/ ReceiveEnds(s) \/ ReceiveFails(s) \/ Place(s))
    \/ Leave(e, s)

TransferStep(s) ==
    \/ \E e \in Ends : ThreadStep(e, s) \/ FileFails(e, s)
    \/ WorkerFails(s)
    \/ Cancel(s)

ForwardStep(s) == ~IsTransfer(s) /\ (Accept(s) \/ Refuse(s) \/ \E e \in Ends : Hold(e, s))

ConnectionStep ==
    \/ \E e \in Ends : Close(e) \/ WriterStep(e) \/ ReaderStep(e)
    \/ Ping
    \/ Break

TNext ==
    \/ OpenTransfer
    \/ \E s \in Numbers : TransferStep(s)
    \/ UNCHANGED jobVars /\ (ConnectionStep \/ \E s \in Numbers : ForwardStep(s))

TSpec == TInit /\ [][TNext]_allVars

(* What the threads of both ends do while they can: each reader, each      *)
(* writer, the Server's workers, the reads of a holder that reads and the  *)
(* transfers.  Nothing makes a person cancel, a file fail or a worker      *)
(* panic.                                                                  *)
StreamsMoveOn ==
    \/ \E e \in Ends, s \in Numbers : ThreadStep(e, s)
    \/ /\ UNCHANGED jobVars
       /\ \/ \E e \in Ends : WriterStep(e) \/ ReaderStep(e)
          \/ \E s \in Numbers :
                ~IsTransfer(s) /\ (Accept(s) \/ Refuse(s) \/ \E e \in Ends : Read(e, s))

-----------------------------------------------------------------------------
(* Properties.                                                             *)

Stages == {"idle", "opening", "writing", "confirming", "reading", "placing", "leaving", "gone"}
TTypeOK ==
    /\ TypeOK
    /\ job \in [Ends -> [Numbers -> Stages]]
    /\ temp \in [Numbers -> Nat \union {NoFile}] /\ placed \in [Numbers -> Nat \union {NoFile}]
    /\ cancelled \in [Numbers -> BOOLEAN]
    /\ reported \in [Numbers -> {"none", "ok", "failed"}]
    /\ \A e \in Ends, s \in Numbers :
        job[e][s] \notin {"idle", "gone"} => s \in held[e]

(* A transfer puts the whole file in place or none of it, whatever fails   *)
(* on the way, and reports success only for a file in place.  An upload    *)
(* keeps this when it is cancelled; a cancelled download does not          *)
(* (PlacedOnlyComplete).                                                   *)
TransferIsWhole ==
    \A s \in Numbers :
        /\ placed[s] # NoFile /\ (Receiver(s) = "client" => ~cancelled[s]) => placed[s] = Size(s)
        /\ reported[s] = "ok" => placed[s] # NoFile

(* The two ends agree: no frame breaks the protocol, the end of a Stream    *)
(* means all of it, a write that waits for credit waits for something, and  *)
(* what one end gives up the other hears of.                                *)
EndsAgree == TTypeOK /\ NoProtocolError /\ FinishMeansAll /\ CreditComes /\ GivenUpIsHeard

(* transfer.rs: "A download is written beside its destination and placed   *)
(* only once complete".                                                    *)
PlacedOnlyComplete == \A s \in Numbers : placed[s] # NoFile => placed[s] = Size(s)

(* Every transfer ends at both ends, done or failed: no thread waits for   *)
(* ever for credit, an answer, a Finish or the news that the peer gave up, *)
(* closed or is gone.  By then what the holders of forwards read has come  *)
(* to them.                                                                *)
StreamsEnded == CaughtUp /\ \A e \in Ends, s \in Numbers : job[e][s] \in {"idle", "gone"}
=============================================================================
