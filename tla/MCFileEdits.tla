---------------------------- MODULE MCFileEdits ----------------------------
(* Small worlds of a Preview Tab and two files: each initial state lets a   *)
(* few things happen.                                                       *)
EXTENDS FileEdits

CONSTANTS a, b   \* files

Mix(s) == [x \in Budgets |-> IF x \in DOMAIN s THEN s[x] ELSE 0]
Both == (a :> 2) @@ (b :> 3)
Lone == (a :> 2) @@ (b :> Gone)
World(s, files) == [bounds |-> Mix(s), files |-> files]
EditWorlds == {
    World([types |-> 2, saves |-> 2, touches |-> 1], Both),
    World([types |-> 1, saves |-> 1, touches |-> 1, failures |-> 1], Both),
    World([types |-> 1, saves |-> 1, touches |-> 1, others |-> 1], Both),
    World([types |-> 1, saves |-> 1, shows |-> 1, others |-> 1], Both),
    World([types |-> 1, saves |-> 2, others |-> 1], Both),
    World([types |-> 1, saves |-> 1, closes |-> 1, others |-> 1], Both),
    World([types |-> 1, renames |-> 1, others |-> 1], Lone),
    World([types |-> 1, saves |-> 1, renames |-> 1], Lone),
    World([types |-> 1, saves |-> 1, renames |-> 1, losses |-> 1], Both),
    World([types |-> 1, saves |-> 1, failures |-> 1, losses |-> 1], Both),
    World([types |-> 1, saves |-> 1, shows |-> 1, losses |-> 1, restarts |-> 1], Both),
    World([types |-> 1, hands |-> 1, overflows |-> 1, touches |-> 1], Both),
    World([types |-> 1, undos |-> 1, saves |-> 1, looks |-> 1], Both),
    World([types |-> 1, saves |-> 1, overflows |-> 1, touches |-> 1], Both),
    World([types |-> 1, saves |-> 1, overflows |-> 1, others |-> 1], Both),
    World([types |-> 1, saves |-> 1, overflows |-> 1, shows |-> 1], Both),
    World([types |-> 1, saves |-> 1, overflows |-> 1, closes |-> 1], Both),
    World([types |-> 1, saves |-> 2, overflows |-> 1, losses |-> 1], Both),
    World([types |-> 1, undos |-> 1, saves |-> 2, overflows |-> 1], Both),
    World([types |-> 1, renames |-> 1, overflows |-> 1], Lone),
    World([renames |-> 1, overflows |-> 1, losses |-> 1], Lone)}

(* Nobody does anything with the files.                                     *)
Untouched == EditInit(Mix([types |-> 0]), Both, NoPath)

(* The person disconnects while a save may be on its way.                   *)
HandInit == EditInit(Mix([types |-> 1, saves |-> 1, hands |-> 1]), Both, a)
HandSpec == HandInit /\ [][EditNext]_editVars
(* The queue to the window overflows while a save may be on its way.        *)
OverflowInit == EditInit(Mix([types |-> 1, saves |-> 1, overflows |-> 1]), Both, a)
OverflowSpec == OverflowInit /\ [][EditNext]_editVars
=============================================================================
