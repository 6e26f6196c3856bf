-------------------------------- MODULE Disk --------------------------------
(***************************************************************************)
(* What disk_read_sector and disk_write_sector promise, whatever driver is *)
(* behind them: one sector moves, all of it and no other, or the call      *)
(* fails and nothing moves.                                                *)
(***************************************************************************)
CONSTANTS
    Sectors,          \* sector numbers
    Values            \* what a sector or a buffer can hold

VARIABLES
    phase,            \* "idle", "called", and once it is decided "ok" or "failed"
    request,          \* [op, sector]: the call under way, or the last one
    content,          \* the disk
    memory,           \* the buffer of the call
    result            \* 0: the last call that returned had moved its sector

Requests == [op : {"read", "write"}, sector : Sectors]

Init ==
    /\ phase = "idle"
    /\ request \in Requests
    /\ content \in [Sectors -> Values]
    /\ memory \in Values
    /\ result = 0

Call ==
    /\ phase = "idle"
    /\ phase' = "called"
    /\ request' \in Requests
    /\ memory' \in Values
    /\ UNCHANGED <<content, result>>

Move ==
    /\ phase = "called"
    /\ phase' = "ok"
    /\ IF request.op = "read"
       THEN memory' = content[request.sector] /\ UNCHANGED content
       ELSE content' = [content EXCEPT ![request.sector] = memory] /\ UNCHANGED memory
    /\ UNCHANGED <<request, result>>

Fail ==
    /\ phase = "called"
    /\ phase' = "failed"
    /\ UNCHANGED <<request, content, memory, result>>

Return ==
    /\ phase \in {"ok", "failed"}
    /\ phase' = "idle"
    /\ result' = IF phase = "ok" THEN 0 ELSE 1
    /\ UNCHANGED <<request, content, memory>>

Next == Call \/ Move \/ Fail \/ Return

Spec == Init /\ [][Next]_<<phase, request, content, memory, result>>
=============================================================================
