---------------------------- MODULE MCTransfers ----------------------------
EXTENDS Transfers

All(target) == [s \in Numbers |-> target]
Bytes(c, s) == [e \in Ends |-> IF e = "client" THEN c ELSE s]
Quiet ==
    [targets |-> All("forward"), capacity |-> 2, shuts |-> FALSE, opens |-> 1,
     bytes |-> Bytes(0, 0), portions |-> {4}, stalled |-> {}, gives_up |-> {}, refuses |-> FALSE,
     closes |-> {}, breaks |-> FALSE, pings |-> 0]

(* More than a window, in portions that do not divide it.                  *)
Bulk == [Quiet EXCEPT !.bytes = Bytes(0, 10), !.portions = {3}]
(* A forward nobody reads beside a download.                               *)
Beside == [Quiet EXCEPT !.targets = [s \in Numbers |-> IF s = 1 THEN "forward" ELSE "download"],
                        !.opens = 2, !.bytes = Bytes(0, 9), !.stalled = {<<"client", 1>>}]
(* Both ends write, reset, drop and refuse.                                *)
GivingUp == [Quiet EXCEPT !.bytes = Bytes(2, 2), !.portions = {2}, !.gives_up = Ends,
                          !.refuses = TRUE]
(* One place: the Client's is free before the Server's.                    *)
Crowded == [Quiet EXCEPT !.capacity = 1, !.opens = 2, !.gives_up = {"client"}, !.refuses = TRUE]
(* A transfer that its file, its person or its connection's end may stop.  *)
Moving(target, closer) ==
    [Quiet EXCEPT !.targets = All(target), !.bytes = Bytes(5, 5), !.gives_up = Ends,
                  !.closes = closer]
(* The transport is shut down, or fails, under a download.                 *)
Cut == [Quiet EXCEPT !.targets = All("download"), !.bytes = Bytes(0, 5), !.shuts = TRUE,
                     !.closes = {"server"}, !.breaks = TRUE]
(* Either end closes the connection under a forward that is kept alive.    *)
Ending == [Quiet EXCEPT !.bytes = Bytes(0, 2), !.portions = {2}, !.closes = Ends, !.pings = 1]

Worlds == {Bulk, Beside, GivingUp, Crowded, Ending, Cut, Moving("download", {}),
           Moving("upload", {"client"})}
(* A download that only its person may stop.                               *)
Cancelled == {[Quiet EXCEPT !.targets = All("download"), !.bytes = Bytes(0, 5),
                            !.gives_up = {"client"}]}
=============================================================================
