--------------------------- MODULE ShareRegistry ---------------------------
(***************************************************************************)
(* What the registry of shared folders promises to the administrator: a    *)
(* set of shares that changes in one step per request, in which a number   *)
(* (and with it a folder) belongs to one share, except for the last number *)
(* that is given out again when all are taken.  A crash may cost the       *)
(* registry as a whole, and never a part of it.                            *)
(***************************************************************************)
EXTENDS Naturals

CONSTANTS Shares,       \* the shares that may ever be made
          LastNumber,   \* numbers go from 0 to this one
          Options       \* what an administrator may set for a share

VARIABLES shares,       \* the listed shares
          lost          \* the registry was lost in a crash

vars == <<shares, lost>>

Entry == [share : Shares, number : 0 .. LastNumber, option : Options]

Init == shares = {} /\ lost = FALSE

(* A new share gets a number that no share has, or the last one. *)
Add(e) ==
  /\ \A f \in shares : f.number = e.number => e.number = LastNumber
  /\ shares' = shares \cup {e}

(* An edit changes the option of the shares of one number and nothing else. *)
Edit(n, o) ==
  shares' = {IF e.number = n THEN [e EXCEPT !.option = o] ELSE e : e \in shares}

Remove(n) == shares' = {e \in shares : e.number # n}

Clear == shares' = {}

Next ==
  \/ /\ lost = FALSE
     /\ UNCHANGED lost
     /\ \/ \E e \in Entry : Add(e)
        \/ \E n \in 0 .. LastNumber, o \in Options : Edit(n, o)
        \/ \E n \in 0 .. LastNumber : Remove(n)
        \/ Clear
  \/ lost' = TRUE /\ shares' = {}

Spec == Init /\ [][Next]_vars
=============================================================================
