------------------------------ MODULE MCPeople -----------------------------
(***************************************************************************)
(* Accounts and owners for TLC: signing in, the administration of          *)
(* accounts, and whose a device is.  `about' says which one a behaviour is *)
(* about, the others stay as they are first.                               *)
(***************************************************************************)
EXTENDS SignIn, AccountDesk, DeviceOwner

VARIABLE about

Subject == {"sign-in", "accounts", "owners"}

\* A component that is not looked at has one initial state.
Init ==
    /\ about \in Subject
    /\ SignInit /\ DeskInit /\ OwnerInit
    /\ about # "sign-in" => live = {} /\ cookie = NoOne

SigningIn ==
    /\ about = "sign-in" /\ SignNext
    /\ UNCHANGED <<about, deskVars, ownerVars>>
AccountsPage ==
    /\ about = "accounts" /\ DeskNext
    /\ UNCHANGED <<about, signVars, ownerVars>>
Owning ==
    /\ about = "owners" /\ OwnerNext
    /\ UNCHANGED <<about, signVars, deskVars>>

Next == SigningIn \/ AccountsPage \/ Owning

Vars == <<about, signVars, deskVars, ownerVars>>

Spec == Init /\ [][Next]_Vars

\* The others never change: two states that agree on this are the same.
SubjectState ==
    <<about, CASE about = "sign-in"  -> signVars
               [] about = "accounts" -> deskVars
               [] about = "owners"   -> ownerVars>>

\* Every variable keeps its type.
PeopleTypeOK ==
    CASE about = "sign-in"  -> SignTypeOK
      [] about = "accounts" -> DeskTypeOK
      [] about = "owners"   -> OwnerTypeOK
=============================================================================
