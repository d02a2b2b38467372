------------------------------- MODULE AskMC -------------------------------
(* A small instance of Ask for TLC.  An earlier ask has ended and left its  *)
(* session behind, so that an id is taken when the next one starts: a state *)
(* AskSpec reaches.                                                         *)
EXTENDS Ask, TLC

CONSTANTS
    Past,       \* the earlier ask
    Taken       \* the id of its session

Recorded == [lines |-> 3, torn |-> FALSE]
OnlyPast(value, others) == [w \in Writer |-> IF w = Past THEN value ELSE others]

EarlierInit ==
    /\ entry = [i \in Id |-> IF i = Taken THEN Past ELSE None]
    /\ entryOnDisk = entry
    /\ directoryOnDisk \in BOOLEAN
    /\ data = OnlyPast(Recorded, Empty) /\ dataOnDisk = data
    /\ exclusive = {} /\ shared = [w \in Writer |-> {}]
    /\ pc = OnlyPast("done", "idle")
    /\ id = OnlyPast(Taken, None)
    /\ tries = [w \in Writer |-> 0]
    /\ terminal = OnlyPast("Completed", "none")
    /\ result = OnlyPast("Appended", "none")
    /\ rpc = [r \in Reader |-> "idle"]
    /\ opened = [r \in Reader |-> None] /\ asked = [r \in Reader |-> None]
    /\ shown = [r \in Reader |-> "none"]
    /\ unlinked = {} /\ vanished = {}
    /\ answer = OnlyPast("text", "none")
    /\ stdout = OnlyPast("written", "none")
    /\ announced = OnlyPast(TRUE, FALSE)
    /\ exit = OnlyPast("SUCCESS", "none")

AskAfterSpec == EarlierInit /\ [][AskNext]_askVars /\ AskFairness
=============================================================================
