---------------------------- MODULE MCUadeChips ----------------------------
(* UadeChips on small instances: what a program may do to each part.        *)
EXTENDS UadeChips

AnyAccesses == [timers |-> 2, clock |-> 4, audio |-> 5, interrupts |-> 3]
FewAccesses == [timers |-> 2, clock |-> 0, audio |-> 3, interrupts |-> 2]

MCAny == [p \in Programs |-> AnyAccesses[p]]
MCFew == [p \in Programs |-> FewAccesses[p]]
=============================================================================
