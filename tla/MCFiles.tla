------------------------------ MODULE MCFiles ------------------------------
(* What a window does with a Server's files, and with what the Server can   *)
(* reach: the Preview Tab's editor, and the Streams of a connection.  They  *)
(* share no state, and each initial state gives one of them something to do.*)
EXTENDS MCFileEdits, MCTransfers

(* A connection without a Stream.                                           *)
Idle == [Quiet EXCEPT !.opens = 0]
Connections == Worlds \cup {Idle}

FilesInit ==
    /\ TInit
    /\ IF setting = Idle THEN \E w \in EditWorlds : EditInit(w.bounds, w.files, a)
       ELSE Untouched
FilesNext ==
    \/ EditNext /\ UNCHANGED allVars
    \/ TNext /\ UNCHANGED editVars

(* Something goes on while something can: less than the threads promise.    *)
MovesOn ==
    \/ setting = Idle /\ EditsMoveOn /\ UNCHANGED allVars
    \/ setting # Idle /\ StreamsMoveOn /\ UNCHANGED editVars

FilesSpec == FilesInit /\ [][FilesNext]_<<allVars, editVars>>
FairFilesSpec == FilesSpec /\ WF_<<allVars, editVars>>(MovesOn)

(* Every save is answered or given up, every question is asked, and every   *)
(* transfer and forward comes to its end.                                   *)
FilesSettle == ~(EditsSettled /\ StreamsEnded) ~> (EditsSettled /\ StreamsEnded)
=============================================================================
