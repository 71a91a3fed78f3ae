-------------------------- MODULE AtomicPromotion --------------------------
(***************************************************************************)
(* What a promotion is to whoever takes the rotation lock after it: one    *)
(* step that puts a whole image on both twins and says so, or none.  The   *)
(* exceptions are named: a split state, which is reported, a command that  *)
(* took effect and was reported failed, and a rotation killed half way.    *)
(* GoldenPromote is shown to implement this specification.                 *)
(***************************************************************************)

CONSTANTS Rotators, Candidates, Master, NoImage

VARIABLES
  golden,     \* the disk twin
  base,       \* the RAM twin
  want,       \* each rotator: the image it is promoting
  told        \* each rotator: the outcome it returns, "none" before and after

absVars == <<golden, base, want, told>>

Quiet == \A r \in Rotators : want[r] = NoImage /\ told[r] = "none"

AbsInit ==
  /\ golden \in Candidates \cup {NoImage}
  /\ base \in {NoImage} \cup (IF golden = NoImage THEN Candidates ELSE {golden})
  /\ want = [r \in Rotators |-> NoImage] /\ told = [r \in Rotators |-> "none"]

Begin(r) ==
  /\ Quiet
  /\ \E c \in Candidates : want' = [want EXCEPT ![r] = c]
  /\ UNCHANGED <<golden, base, told>>

\* A rotation is over, with an outcome that describes the twins it leaves.
Ends(r, outcome) ==
  /\ want[r] # NoImage
  /\ want' = [want EXCEPT ![r] = NoImage] /\ told' = [told EXCEPT ![r] = outcome]

Promotes(r)    == Ends(r, "promoted") /\ golden' = want[r] /\ base' = want[r]
ChangesNone(r) == Ends(r, "nothing") /\ UNCHANGED <<golden, base>>
Splits(r)      == Ends(r, "split") /\ golden' = want[r] /\ UNCHANGED base
Misreports(r)  == Ends(r, "misreported") /\ golden' \in {golden, want[r]} /\ base' \in {base, want[r]}

\* It returns, or is killed when it has only that left to do: the lock is free.
Returns(r) ==
  /\ told[r] # "none"
  /\ told' = [told EXCEPT ![r] = "none"]
  /\ UNCHANGED <<golden, base, want>>

\* The RAM twin is never the new image when the disk twin is not.
Killed(r) ==
  /\ want[r] # NoImage
  /\ want' = [want EXCEPT ![r] = NoImage]
  /\ \/ UNCHANGED <<golden, base>>
     \/ golden' = want[r] /\ base' \in {base, want[r]}
  /\ UNCHANGED told

\* The unit's pre-start, when nobody promotes: an unowned base goes only if it can be made
\* again, and a missing one is made of the golden, of the packer image when there is neither.
Discards == Quiet /\ golden # NoImage /\ base' = NoImage /\ UNCHANGED <<golden, want, told>>

Refills ==
  /\ Quiet /\ base = NoImage
  /\ base' = IF golden = NoImage THEN Master ELSE golden
  /\ UNCHANGED <<golden, want, told>>

Reboots ==
  /\ base' = NoImage
  /\ golden' = golden \/ \E r \in Rotators : want[r] # NoImage /\ golden' = want[r]
  /\ want' = [r \in Rotators |-> NoImage] /\ told' = [r \in Rotators |-> "none"]

AbsNext ==
  \/ \E r \in Rotators : \/ Begin(r) \/ Promotes(r) \/ ChangesNone(r) \/ Splits(r) \/ Misreports(r)
                         \/ Returns(r) \/ Killed(r)
  \/ Discards \/ Refills \/ Reboots

AbsSpec == AbsInit /\ [][AbsNext]_absVars

=============================================================================
