------------------------------- MODULE MCForms -------------------------------
(***************************************************************************)
(* The forms that adjust, open and close a Trove.  One is on the page at a *)
(* time and they share no state but the store, which each models as far as *)
(* it is concerned, so a behaviour stays with the form it starts with.     *)
(***************************************************************************)
EXTENDS Adjusting

CONSTANTS
    Redistribution, OtherTroves, HchfBalance    \* of Closing

ASSUME FormsConstants ==
    /\ HchfBalance \subseteq Nat
    /\ Redistribution \in [collateral : Nat, debt : Nat]
    /\ OtherTroves \in [collateral : Nat, debt : Nat]

VARIABLES
    page,
    oPrice, oRate, oCollateral, oBorrowAmount, oAuto,
    chain, stored, form, tx, next, flight, approving

O == INSTANCE Opening WITH price <- oPrice, rate <- oRate, collateral <- oCollateral,
                           borrowAmount <- oBorrowAmount, auto <- oAuto
C == INSTANCE Closing

openingVars == <<oPrice, oRate, oCollateral, oBorrowAmount, oAuto>>
closingVars == <<chain, stored, form, tx, next, flight, approving>>
allVars == <<page, vars, openingVars, closingVars>>

One(S) == CHOOSE x \in S : TRUE

\* A form that is not visited rests in one state.
FormsInit ==
    /\ page \in {"ADJUSTING", "OPENING", "CLOSING"}
    /\ Init /\ (page # "ADJUSTING" => trove = One(OpenTrove) /\ price = One(Price) /\ rate = One(Rate))
    /\ O!Init /\ (page # "OPENING" => oPrice = One(Price) /\ oRate = One(Rate))
    /\ C!Init /\ (page # "CLOSING" => chain.base = One(OpenTrove) /\ chain.price = One(Price)
                                     /\ chain.hchfBalance = One(HchfBalance))

FormsNext ==
    \/ page = "ADJUSTING" /\ Next /\ UNCHANGED <<page, openingVars, closingVars>>
    \/ page = "OPENING" /\ O!Next /\ UNCHANGED <<page, vars, closingVars>>
    \/ page = "CLOSING" /\ C!Next /\ UNCHANGED <<page, vars, openingVars>>

FormsSpec == FormsInit /\ [][FormsNext]_allVars

------------------------------------------------------------------------------
(* Instances.                                                              *)

\* A trove, the same after a redemption, and in trouble.
MCOpenTrove == {MakeTrove(40, 22), MakeTrove(36, 18)}
MCRedistribution == MakeTrove(3, 4)
MCOtherTroves == MakeTrove(60, 40)
MCOthers == {EmptyTrove, MakeTrove(45, 31), MakeTrove(60, 30)}

------------------------------------------------------------------------------
(* Properties.                                                             *)

\* The forms do their own arithmetic on decimals to predict what a change makes
\* of the Trove and of the system, in both modes of the system.  A change that a
\* render finds valid, of whatever the store knows, is one that the contract does
\* not revert in that state; and once it has settled, the button of the form that
\* adjusts the Trove offers such a change of the last render.
ValidIsAccepted ==
    /\ page = "ADJUSTING" /\ mounted =>
         /\ \A selected \in Known(trove, price) :
                LET change == ValidChange(selected, TRUE)
                IN  change # NoChange => Accepts(trove, change, rate, selected)
         /\ Settled /\ stable # NoChange =>
                \E selected \in Known(trove, price) : SameOffer(stable, ValidChange(selected, TRUE))
    /\ page = "OPENING" =>
         \A selected \in Known(EmptyTrove, oPrice) :
             LET change == O!ValidChange(selected, TRUE)
             IN  change # NoChange => Accepts(EmptyTrove, change, oRate, selected)
    /\ page = "CLOSING" => C!ClosureIsAccepted

\* <Opening> offers what it shows (see Opening).
OpeningOffersWhatIsShown == O!OffersWhatIsShown

\* <TroveManager> offers the closure of the Trove (see Closing).
ClosureOffered == C!ClosureOffered
==============================================================================
