-------------------------- MODULE TokenAssociation --------------------------
(***************************************************************************)
(* How the user's account is associated with the tokens HCHF, HLQT and LP  *)
(* and dissociated from them: the six associateWith...() and               *)
(* dissociateFrom...() methods of HashgraphLiquity, waitForTokenState() of *)
(* mirror-node and the part of refresh() that reads the associations.      *)
(*                                                                         *)
(* The ledger's state of a token is a version, the number of times the     *)
(* account was associated with it or dissociated from it: it is associated *)
(* when the version is odd.  The mirror node follows the ledger in order   *)
(* and at a delay, so the version it has is an earlier one.                *)
(***************************************************************************)
EXTENDS Naturals

CONSTANTS
    Token,      \* the tokens
    Request,    \* method calls that may be in flight together
    MaxVersion  \* bound on the changes of a token's association

ASSUME VersionAssumption == MaxVersion \in Nat

VARIABLES
    ledger,     \* ledger[t]: version of t on the network
    mirror,     \* mirror[t]: version of t the mirror node has
    pc,         \* pc[c]: what call c awaits
    op,         \* op[c]: the method called
    token,      \* token[c]: the token it is about
    answer,     \* answer[c]: a response of the mirror node on its way to c
    tokens,     \* tokens[c]: `tokens` in waitForTokenState()
    at,         \* at[c]: the version c's transaction made of token[c]
    before,     \* before[c]: the version the mirror node had then
    userHasAssociated  \* the userHasAssociatedWith... flags of the store

chainVars == <<ledger, mirror>>
callVars == <<pc, op, token, answer, tokens, at, before>>
associationVars == <<chainVars, callVars, userHasAssociated>>

Version == 0..MaxVersion
Op == {"associate", "dissociate", "refresh"}
Pc == {"idle", "sending", "waiting", "answered", "refreshing", "refreshed", "unread"}

Associated(v) == v % 2 = 1

\* The tokens the account is associated with by the versions in `versions`.
TokensIn(versions) == {t \in Token : Associated(versions[t])}

AssociationTypeOK ==
    /\ ledger \in [Token -> Version]
    /\ mirror \in [Token -> Version]
    /\ pc \in [Request -> Pc]
    /\ op \in [Request -> Op]
    /\ \A c \in Request : op[c] = "refresh" => pc[c] \notin {"sending", "waiting", "answered"}
    /\ token \in [Request -> Token]
    /\ answer \in [Request -> SUBSET Token]
    /\ tokens \in [Request -> SUBSET Token]
    /\ at \in [Request -> Version]
    /\ before \in [Request -> Version]
    /\ userHasAssociated \subseteq Token

AssociationInit ==
    /\ ledger \in [Token -> Version \cap {0, 1}]
    /\ mirror = ledger
    /\ pc = [c \in Request |-> "idle"]
    /\ op = [c \in Request |-> "refresh"]
    /\ token \in [Request -> Token]
    /\ answer = [c \in Request |-> {}]
    /\ tokens = [c \in Request |-> {}]
    /\ at = [c \in Request |-> 0]
    /\ before = [c \in Request |-> 0]
    /\ userHasAssociated = {}

------------------------------------------------------------------------------
(* The network (external).                                                 *)

\* The user associates or dissociates t by other means.
LedgerWrite(t) ==
    /\ ledger[t] < MaxVersion
    /\ ledger' = [ledger EXCEPT ![t] = ledger[t] + 1]
    /\ UNCHANGED <<mirror, callVars, userHasAssociated>>

\* The mirror node catches up on t, not always all the way.
MirrorPublish(t) ==
    /\ \E v \in Version :
        /\ mirror[t] < v /\ v <= ledger[t]
        /\ mirror' = [mirror EXCEPT ![t] = v]
    /\ UNCHANGED <<ledger, callVars, userHasAssociated>>

------------------------------------------------------------------------------
(* associateWith...(), dissociateFrom...() and waitForTokenState().        *)

\* Does `set` have what call c waits for?
Satisfied(c, set) ==
    /\ op[c] = "associate" => token[c] \in set
    /\ op[c] = "dissociate" => token[c] \notin set

\* The method is called and sends its transaction.
Call(c, o, t) ==
    /\ pc[c] = "idle"
    /\ pc' = [pc EXCEPT ![c] = "sending"]
    /\ op' = [op EXCEPT ![c] = o]
    /\ token' = [token EXCEPT ![c] = t]
    /\ UNCHANGED <<answer, tokens, at, before, chainVars, userHasAssociated>>

\* A promise before the wait rejects, and so does the method: reading the
\* token's address or the other ids, signing, executing.  The transaction may
\* have been executed nevertheless, or may yet be: LedgerWrite covers that.
CallFails(c) ==
    /\ pc[c] = "sending"
    /\ pc' = [pc EXCEPT ![c] = "idle"]
    /\ UNCHANGED <<op, token, answer, tokens, at, before, chainVars, userHasAssociated>>

\* Broken: the method refreshes without waiting for the mirror node.
ExecutedWithoutWait(c) ==
    LET t == token[c]
    IN  /\ pc[c] = "sending"
        /\ ledger[t] < MaxVersion
        /\ Associated(ledger[t]) <=> op[c] = "dissociate"
        /\ ledger' = [ledger EXCEPT ![t] = ledger[t] + 1]
        /\ pc' = [pc EXCEPT ![c] = "refreshing"]
        /\ tokens' = [tokens EXCEPT ![c] = {}]
        /\ at' = [at EXCEPT ![c] = ledger[t] + 1]
        /\ before' = [before EXCEPT ![c] = mirror[t]]
        /\ UNCHANGED <<op, token, answer, mirror, userHasAssociated>>

\* The network executes the transaction (it refuses one that changes nothing)
\* and the method begins to wait, with no tokens known.
Executed(c) ==
    LET t == token[c]
    IN  /\ pc[c] = "sending"
        /\ ledger[t] < MaxVersion
        /\ Associated(ledger[t]) <=> op[c] = "dissociate"
        /\ ledger' = [ledger EXCEPT ![t] = ledger[t] + 1]
        /\ pc' = [pc EXCEPT ![c] = "waiting"]
        /\ tokens' = [tokens EXCEPT ![c] = {}]
        /\ at' = [at EXCEPT ![c] = ledger[t] + 1]
        /\ before' = [before EXCEPT ![c] = mirror[t]]
        /\ UNCHANGED <<op, token, answer, mirror, userHasAssociated>>

\* After its delay, fetchTokens() is answered by the mirror node.
FetchServed(c) ==
    /\ pc[c] = "waiting"
    /\ pc' = [pc EXCEPT ![c] = "answered"]
    /\ answer' = [answer EXCEPT ![c] = TokensIn(mirror)]
    /\ UNCHANGED <<op, token, tokens, at, before, chainVars, userHasAssociated>>

\* The end of the loop's body: leave the loop if `tokens` satisfies it.
CheckTokens(c, set) ==
    /\ tokens' = [tokens EXCEPT ![c] = set]
    /\ pc' = [pc EXCEPT ![c] = IF Satisfied(c, set) THEN "refreshing" ELSE "waiting"]
    /\ UNCHANGED <<op, token, answer, at, before, chainVars, userHasAssociated>>

\* Broken: only the first answer is kept.
FetchArrivesOnce(c) ==
    /\ pc[c] = "answered"
    /\ CheckTokens(c, IF tokens[c] = {} THEN answer[c] ELSE tokens[c])

\* The answer arrives.
FetchArrives(c) ==
    /\ pc[c] = "answered"
    /\ CheckTokens(c, answer[c])

\* fetchTokens() fails, and `tokens` stays what it was.
FetchFails(c) ==
    /\ pc[c] \in {"waiting", "answered"}
    /\ CheckTokens(c, tokens[c])

------------------------------------------------------------------------------
(* refresh(), called by these methods or by others.                        *)

Refresh(c) ==
    /\ pc[c] = "idle"
    /\ pc' = [pc EXCEPT ![c] = "refreshing"]
    /\ op' = [op EXCEPT ![c] = "refresh"]
    /\ UNCHANGED <<token, answer, tokens, at, before, chainVars, userHasAssociated>>

\* The mirror node answers the refresh's fetchTokens().
RefreshServed(c) ==
    /\ pc[c] = "refreshing"
    /\ pc' = [pc EXCEPT ![c] = "refreshed"]
    /\ answer' = [answer EXCEPT ![c] = TokensIn(mirror)]
    /\ UNCHANGED <<op, token, tokens, at, before, chainVars, userHasAssociated>>

\* It fails, which refresh() takes for an answer with no tokens.
RefreshUnserved(c) ==
    /\ pc[c] = "refreshing"
    /\ pc' = [pc EXCEPT ![c] = "unread"]
    /\ UNCHANGED <<op, token, answer, tokens, at, before, chainVars, userHasAssociated>>

\* The method returns, with the store showing `set`.
Return(c, set) ==
    /\ pc' = [pc EXCEPT ![c] = "idle"]
    /\ userHasAssociated' = set
    /\ UNCHANGED <<op, token, answer, tokens, at, before, chainVars>>

\* Broken: the associations read are merged into those shown.
RefreshMerges(c) ==
    /\ pc[c] = "refreshed"
    /\ Return(c, userHasAssociated \cup answer[c])

\* The answer, and all the other reads', arrive.
RefreshArrives(c) ==
    /\ pc[c] = "refreshed"
    /\ Return(c, answer[c])

\* The other reads' answers arrive: no association is shown.
RefreshArrivesUnread(c) ==
    /\ pc[c] = "unread"
    /\ Return(c, {})

\* Another read fails: the store keeps what it shows.
RefreshFails(c) ==
    /\ pc[c] \in {"refreshing", "refreshed", "unread"}
    /\ Return(c, userHasAssociated)

------------------------------------------------------------------------------
AssociationNext ==
    \/ \E t \in Token : LedgerWrite(t) \/ MirrorPublish(t)
    \/ \E c \in Request :
        \/ \E o \in {"associate", "dissociate"}, t \in Token : Call(c, o, t)
        \/ CallFails(c)
        \/ Executed(c)
        \/ FetchServed(c)
        \/ FetchArrives(c)
        \/ FetchFails(c)
        \/ Refresh(c)
        \/ RefreshServed(c)
        \/ RefreshUnserved(c)
        \/ RefreshArrives(c)
        \/ RefreshArrivesUnread(c)
        \/ RefreshFails(c)

AssociationSpec == AssociationInit /\ [][AssociationNext]_associationVars

\* Fairness.  The mirror node catches up, and every request to it is answered
\* or fails.
AssociationFairness ==
    /\ \A t \in Token : WF_associationVars(MirrorPublish(t))
    /\ \A c \in Request :
        /\ WF_associationVars(FetchServed(c) \/ FetchArrives(c) \/ FetchFails(c))
        /\ WF_associationVars(RefreshServed(c) \/ RefreshUnserved(c) \/ RefreshArrives(c)
                        \/ RefreshArrivesUnread(c) \/ RefreshFails(c))

AssociationFairSpec == AssociationSpec /\ AssociationFairness

------------------------------------------------------------------------------
(* Properties.                                                             *)

Waits(c) == pc[c] \in {"waiting", "answered"}

\* The mirror node was up to date on c's token when c's transaction was
\* executed, and nobody has changed the association since.
Undisturbed(c) == before[c] + 1 = at[c] /\ ledger[token[c]] = at[c]

\* The refresh() at the end of call c ends, in one of its three ways.
Returns(c) == RefreshArrives(c) \/ RefreshArrivesUnread(c) \/ RefreshFails(c)

\* However the refresh() of an undisturbed call of o ends, the mirror node has
\* what the call was to bring about; if the mirror node answered that refresh(),
\* the store shows it.
ShownOnReturn(o) ==
    \A c \in Request :
        Returns(c) /\ op[c] = o /\ Undisturbed(c) =>
            /\ Satisfied(c, TokensIn(mirror))
            /\ RefreshArrives(c) => Satisfied(c, userHasAssociated')

\* associateWith...() does not leave its wait before the mirror node has the
\* association, however far that lags behind and whichever requests of the wait
\* fail: any refresh() the mirror node answers afterwards reads the association,
\* and the store shows it when the method returns from one that was answered.
\* The two other ends show nothing of the kind.  If another read fails the method
\* rejects and the store keeps what it showed (RefreshFails).  If the request of
\* that last refresh() to the mirror node fails, the method returns with a store
\* that shows no token as associated (RefreshArrivesUnread; the catch at
\* HashgraphLiquity.ts:572), until a refresh() is answered (EventuallyShown).
\* Nothing is said of calls that are not Undisturbed: somebody else changed the
\* association, or the mirror node had yet to learn of an earlier change.
AssociationShown == [][ShownOnReturn("associate")]_associationVars

\* waitForTokenState() ends, if its requests do not fail forever and nobody
\* undoes what it waits for.
WaitEnds ==
    \A c \in Request :
        []<><<FetchArrives(c)>>_associationVars /\ <>[](Satisfied(c, TokensIn(ledger)))
            => []<>(~Waits(c))

\* Once the user's associations no longer change and refreshes go on, with the
\* mirror node answering, the store shows them: an answer that was overtaken by
\* a later one does no lasting harm.
EventuallyShown ==
    /\ []<><<\E c \in Request : RefreshArrives(c)>>_associationVars
    /\ <>[](\A c \in Request : pc[c] # "unread")
    /\ <>[][UNCHANGED ledger]_associationVars
    => <>[](userHasAssociated = TokensIn(ledger))

=============================================================================
