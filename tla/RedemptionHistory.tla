-------------------------- MODULE RedemptionHistory --------------------------
(***************************************************************************)
(* The page of the redemptions on the network, RedemptionsPage.tsx: the    *)
(* effect that loads a page of results from the mirror node for the        *)
(* timestamp of the URL, the links to the next and the previous page, and  *)
(* the rows, which when unfolded are enriched with what was redeemed from  *)
(* the Trove, found by a search backwards through its updates              *)
(* (extractAffectedTroves.ts).                                             *)
(*                                                                         *)
(* Nothing ends a load when another begins: each sets what the page shows  *)
(* when it ends.                                                           *)
(*                                                                         *)
(* Time counts what happened on the ledger: to one Trove, which every      *)
(* redemption affects, or to others.  The mirror node lists results that   *)
(* are there when it is asked, and links to more if the list is full.  A   *)
(* request gets an answer, an error, or is rejected; of the requests of a  *)
(* kind that go out together at most one gets no answer, a bound.          *)
(***************************************************************************)
EXTENDS Integers, Sequences, FiniteSets, FiniteSetsExt

CONSTANTS
    PageSize,   \* results the mirror node lists at once
    Window,     \* SEVEN_DAYS_IN_SECONDS, the longest search
    Debt,       \* debts of the Trove
    Load,       \* loads that may be under way
    MaxTime     \* bound on what happens on the ledger

VARIABLES
    ledger,     \* what happened, by its time
    form,       \* the form of the owner's address in the logs of each contract
    url,        \* the timestamp of the URL, or Latest
    token,      \* is the address of the HCHF token known?
    view,       \* what the page shows
    loads,      \* the loads
    searches    \* the rows that are being enriched

vars == <<ledger, form, url, token, view, loads, searches>>

Latest == 0
now == Len(ledger)

\* failed (history): did a request of it fail?
NoLoad == [pc |-> "none", url |-> Latest, timestamp |-> 0, results |-> {}, rows |-> {},
           affected |-> {}, failed |-> FALSE]

\* shows: the spinner, an error, or the rows.  of (history): the load that ended
\* with them, at the time `since`.
Blank == [shows |-> "spinner", rows |-> {}, affected |-> {}, next |-> {}, previous |-> {},
          expanded |-> {}, enriched |-> [t \in {} |-> 0], of |-> NoLoad, since |-> 0]

------------------------------------------------------------------------------
(* The ledger and the mirror node.                                         *)

\* A call, the Trove's debt before and after it, and whether a redistribution was
\* applied.
Happened(call, before, applied, after) ==
    [call |-> call, before |-> before, applied |-> applied, after |-> after]

Contract == {"TroveManager", "BorrowerOperations"}
Called(call) ==
    IF call \in {"redeemCollateral", "liquidate"} THEN "TroveManager" ELSE "BorrowerOperations"
AddressForm == {"longZero", "alias"}

\* The Trove is updated, and the update is logged.
Updates(call) == call \in {"adjustTrove", "redeemCollateral"}

Current == ledger[now].after

\* A redistribution waits for the next update.
Pending == \E t \in 1 .. now : /\ ledger[t].call = "liquidate"
                              /\ \A u \in t + 1 .. now : ~Updates(ledger[u].call)

\* A liquidation adds to the debt by a redistribution, which no log tells before
\* it is applied.
Happens ==
    /\ now < MaxTime
    /\ \E debt \in Debt :
         \/ ledger' = Append(ledger, Happened("adjustTrove", Current, Pending, debt))
         \/ /\ debt < Current
            /\ ledger' = Append(ledger, Happened("redeemCollateral", Current, Pending, debt))
    /\ UNCHANGED <<form, url, token, view, loads, searches>>

Redistributes ==
    /\ now < MaxTime /\ ~Pending
    /\ ledger' = Append(ledger, Happened("liquidate", Current, FALSE, Current + 1))
    /\ UNCHANGED <<form, url, token, view, loads, searches>>

\* Another Trove is adjusted.
OtherHappens ==
    /\ now < MaxTime
    /\ ledger' = Append(ledger, Happened("other", Current, FALSE, Current))
    /\ UNCHANGED <<form, url, token, view, loads, searches>>

Results(from, to) == {t \in from .. to : Called(ledger[t].call) = "TroveManager"}
Newest(times) == {t \in times : Cardinality({u \in times : u > t}) < PageSize}
Oldest(times) == {t \in times : Cardinality({u \in times : u < t}) < PageSize}
Full(list) == Cardinality(list) = PageSize

------------------------------------------------------------------------------
(* Loading.                                                                *)

Init ==
    /\ \E debt \in Debt : ledger = <<Happened("adjustTrove", 0, FALSE, debt)>>
    /\ form \in [Contract -> AddressForm]
    /\ url = Latest /\ token \in BOOLEAN
    /\ loads = [l \in Load |-> NoLoad]
    /\ view = Blank /\ searches = {}

\* The effect of RedemptionsPage.
Effect(l, location, known) ==
    IF known
    THEN /\ loads[l] = NoLoad
         /\ loads' = [loads EXCEPT ![l] =
              [NoLoad EXCEPT !.pc = "results", !.url = location,
                             !.timestamp = IF location = Latest THEN now ELSE location]]
         /\ view' = Blank
    ELSE /\ view' = [Blank EXCEPT !.shows = "error"]
         /\ UNCHANGED loads

\* The page is opened by a link of the header, which it may be again; or the
\* account or the chain is another, and the URL stays.
Open(l) ==
    /\ \E location \in {Latest, url} :
         /\ url' = location
         /\ Effect(l, location, token)
    /\ UNCHANGED <<ledger, form, token, searches>>

\* The links at its top.
Turn(l) ==
    /\ \E location \in view.next \cup view.previous :
         /\ url' = location
         /\ Effect(l, location, token)
    /\ UNCHANGED <<ledger, form, token, searches>>

\* The store tells the address of the token.
TokenKnown(l) ==
    /\ ~token /\ token' = TRUE
    /\ Effect(l, url, TRUE)
    /\ UNCHANGED <<ledger, form, url, searches>>

\* A request that is rejected ends the load, which nobody waits for: the page
\* goes on to show what it shows.
Rejected(l) ==
    /\ loads[l].pc # "none"
    /\ loads' = [loads EXCEPT ![l] = NoLoad]
    /\ UNCHANGED <<ledger, form, url, token, view, searches>>

\* `lte:${timestamp}`, the newest first.
Listed(timestamp) == Newest(Results(1, timestamp))

\* The first request.  The error that is set for its error is at once replaced
\* by a page without redemptions.
ResultsAnswered(l) ==
    /\ loads[l].pc = "results"
    /\ \/ /\ loads' = [loads EXCEPT ![l].pc = "details",
                                    ![l].results = Listed(loads[l].timestamp)]
          /\ UNCHANGED view
       \/ /\ loads' = [loads EXCEPT ![l] = NoLoad]
          /\ view' = [view EXCEPT !.shows = "rows", !.rows = {}, !.affected = {}, !.next = {},
                                  !.previous = {}, !.of = [loads[l] EXCEPT !.failed = TRUE]]
    /\ UNCHANGED <<ledger, form, url, token, searches>>

\* The details of each redemption among them: one whose transaction is not found
\* is left out, one whose logs are not has no Troves that are affected.
DetailsAnswered(l) ==
    /\ loads[l].pc = "details"
    /\ LET redemptions == {t \in loads[l].results : ledger[t].call = "redeemCollateral"}
       IN  \E unknown, unlogged \in {{}} \cup {{t} : t \in redemptions} :
             loads' = [loads EXCEPT ![l].pc = "previous", ![l].rows = redemptions \ unknown,
                         ![l].affected = redemptions \ (unknown \cup unlogged),
                         ![l].failed = unknown \cup unlogged # {}]
    /\ UNCHANGED <<ledger, form, url, token, view, searches>>

\* Broken: the newest first, too.
NewerDescending(timestamp) == Newest(Results(timestamp + 1, now))

\* `gt:${timestamp}`, the oldest first.
Newer(timestamp) == Oldest(Results(timestamp + 1, now))

\* The last request, for what is newer, and the links.
PreviousAnswered(l) ==
    LET newer == Newer(loads[l].timestamp)
        first == IF loads[l].url = Latest THEN {} ELSE {Latest}
    IN  /\ loads[l].pc = "previous"
        /\ \E answered \in BOOLEAN :
             view' = [view EXCEPT
                  !.shows = "rows", !.rows = loads[l].rows, !.affected = loads[l].affected,
                  !.next = IF Full(loads[l].results) THEN {Min(loads[l].results)} ELSE {},
                  !.previous = IF answered /\ Full(newer) THEN {Max(newer)} ELSE first,
                  !.of = [loads[l] EXCEPT !.failed = @ \/ ~answered], !.since = now]
        /\ loads' = [loads EXCEPT ![l] = NoLoad]
        /\ UNCHANGED <<ledger, form, url, token, searches>>

------------------------------------------------------------------------------
(* The rows.                                                               *)

\* Map.set()
Set(map, t, value) == [u \in DOMAIN map \cup {t} |-> IF u = t THEN value ELSE map[u]]

Loading == [loading |-> TRUE, redeemed |-> 0, failed |-> FALSE]

\* toggleRow()
Toggle(t) ==
    LET fetches == t \notin view.expanded /\ t \notin DOMAIN view.enriched
    IN  /\ t \in view.affected
        /\ view' = [view EXCEPT
             !.expanded = IF t \in @ THEN @ \ {t} ELSE @ \cup {t},
             !.enriched = IF fetches THEN Set(@, t, Loading) ELSE @]
        /\ searches' = IF fetches THEN searches \cup {t} ELSE searches
        /\ UNCHANGED <<ledger, form, url, token, loads>>

\* What may go wrong in a search: the lookup of the alias or a query is answered
\* with an error, or is rejected.
Fault(t) ==
    {[type |-> type, query |-> <<>>] : type \in {"none", "lookup", "rejected"}}
      \cup {[type |-> "query", query |-> <<end, contract>>] :
              end \in 1 .. t, contract \in Contract}

\* buildTopic1Variants()
Topic1Variants(t, fault) ==
    LET borrower == form[Called(ledger[t].call)]
    IN  IF borrower = "longZero" /\ fault.type # "lookup" THEN AddressForm ELSE {borrower}

\* Broken: only the contract that was called to redeem is searched.
SearchTroveManager(t, start, end, fault) ==
    {u \in start + 1 .. end - 1 :
       /\ ledger[u].call = "redeemCollateral"
       /\ form[Called(ledger[u].call)] \in Topic1Variants(t, fault)
       /\ fault.query # <<end, Called(ledger[u].call)>>}

\* The updates of the Trove that the queries of a window find: an error is none.
searchWindow(t, start, end, fault) ==
    {u \in start + 1 .. end - 1 :
       /\ Updates(ledger[u].call)
       /\ form[Called(ledger[u].call)] \in Topic1Variants(t, fault)
       /\ fault.query # <<end, Called(ledger[u].call)>>}

\* The debt that the last update found tells, if one is found.
getPreviousTroveState(t, fault) ==
    LET search[end \in 0 .. t] ==
          LET start == Max({end - Window, 0})
              found == searchWindow(t, start, end, fault)
          IN  IF end = 0 THEN {}
              ELSE IF found # {} THEN {ledger[Max(found)].after} ELSE search[start]
    IN  IF fault.type = "rejected" THEN {} ELSE search[t]

\* enrichOneTrove(), which never rejects.
enrichOneTrove(t, fault) ==
    LET previous == IF ledger[t].applied THEN {ledger[t].before}
                    ELSE getPreviousTroveState(t, fault)
    IN  [loading |-> FALSE, failed |-> fault.type # "none",
         redeemed |-> IF \E debt \in previous : debt >= ledger[t].after
                      THEN Max(previous) - ledger[t].after ELSE 0]

Enriched(t) ==
    /\ t \in searches
    /\ searches' = searches \ {t}
    /\ \E fault \in Fault(t) :
         view' = [view EXCEPT !.enriched = Set(@, t, enrichOneTrove(t, fault))]
    /\ UNCHANGED <<ledger, form, url, token, loads>>

------------------------------------------------------------------------------
Next ==
    \/ Happens \/ Redistributes \/ OtherHappens
    \/ \E l \in Load :
         \/ Open(l) \/ Turn(l) \/ TokenKnown(l) \/ Rejected(l)
         \/ ResultsAnswered(l) \/ DetailsAnswered(l) \/ PreviousAnswered(l)
    \/ \E t \in 1 .. now : Toggle(t) \/ Enriched(t)

Spec == Init /\ [][Next]_vars

------------------------------------------------------------------------------
(* Properties.                                                             *)

\* From a page that was loaded without a failure, the link to the next page
\* leads to the results just older than those listed, and the link to the
\* previous page to those just newer: no redemption is skipped on the way,
\* whatever happened on the ledger between the requests.
PagesAdjoin ==
    view.shows = "rows" /\ ~view.of.failed =>
      /\ \A link \in view.next, t \in Results(1, now) :
           (\A u \in view.of.results : t < u) => t <= link
      /\ \A link \in view.previous \ {Latest}, t \in Results(view.of.timestamp + 1, now) :
           \E u \in Listed(link) : u <= t
      /\ Latest \in view.previous \/ view.previous = {} =>
           Cardinality(Results(view.of.timestamp + 1, view.since)) < PageSize

\* An unfolded row tells what was redeemed from the Trove, whichever contract and
\* form of the address its last update was logged for, and however long ago.
\* Exceptions: a request failed, that update lies on the end of a window, or the
\* redemption was logged for the alias, and the update for the other form.
RedeemedIsTold ==
    \A t \in DOMAIN view.enriched :
      \/ view.enriched[t].loading \/ view.enriched[t].failed
      \/ (t - Max({u \in 1 .. t - 1 : Updates(ledger[u].call)})) % Window = 0
      \/ form = [BorrowerOperations |-> "longZero", TroveManager |-> "alias"]
      \/ view.enriched[t].redeemed = ledger[t].before - ledger[t].after

==============================================================================
