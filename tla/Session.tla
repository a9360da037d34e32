------------------------------- MODULE Session -------------------------------
(***************************************************************************)
(* From the wallet to the store: the chain the user selects, the connector *)
(* that HederaDappConnectorProvider initialises for it, the session a      *)
(* wallet grants, MultiWalletProvider with its dialog, LiquityProvider,    *)
(* which makes a store of one of three kinds, and LiquityStoreProvider,    *)
(* which shows the application when the store is loaded.                   *)
(*                                                                         *)
(* An initialisation, and a call of a wallet, goes on when the chain is    *)
(* switched meanwhile, and sets state when it ends.  The chain can only be *)
(* selected in the dialog, which is only there when there is a connector.  *)
(*                                                                         *)
(* Every chain of the model has a deployment.                              *)
(*                                                                         *)
(* React is as in TroveView.  What the effects of a click set is committed *)
(* in a later turn: until then the user faces what was committed before.   *)
(***************************************************************************)
EXTENDS Naturals, FiniteSets, Sequences

CONSTANTS
    Chain,          \* the chains one can select
    MaxConnectors,  \* bound on the connectors that are made
    MaxCalls,       \* bound on the calls under way
    Store           \* stores that are being used or read at a time, a bound

VARIABLES
    selected,       \* the chain of SelectedChainProvider
    connectors,     \* the chain, and what became of, each connector
    connector,      \* dappConnector, where 0 is null
    session,        \* session, or NoSession
    error,          \* dappConnectorError
    wagmi,          \* is wagmi connected?
    dialog,         \* isDisplayingConnectionDialog
    calls,          \* calls of wallets that have not ended
    page,           \* what is committed
    stores,         \* each store: is it loaded, being read, observed?
    hasty           \* history: did the user act on a page of a connector that is gone?

walletVars == <<connectors, connector, session, error, calls>>
storeVars == <<page, stores>>
sessionVars == <<selected, walletVars, wagmi, dialog, storeVars, hasty>>

\* late: brought by a connector that was no longer there.
NoSession == [by |-> 0, chain |-> "none", late |-> FALSE]
NoStore == "no store"
NewStore == [pending |-> FALSE, loaded |-> FALSE, observed |-> FALSE]
NoApp == [kind |-> "none", key |-> <<>>, store |-> NoStore, isStoreLoaded |-> FALSE]

------------------------------------------------------------------------------
(* What a render computes.                                                 *)

hasHederaDappConnector == session # NoSession
hasConnection == wagmi \/ hasHederaDappConnector

\* LiquityProvider: which of the three kinds, and what the store depends on.
Kind == IF hasHederaDappConnector THEN "hashgraph" ELSE IF wagmi THEN "ethers" ELSE "placeholder"
Key == <<Kind, selected, session, connector>>

\* AppError, the loader of HederaDappConnectorContextLoader, WalletConnector, or
\* LiquityProvider.
View == IF error THEN "error"
        ELSE IF connector = 0 THEN "loader"
        ELSE IF dialog THEN "dialog" ELSE "app"

------------------------------------------------------------------------------
(* The connector.                                                          *)

\* The effect of HederaDappConnectorProvider: initializeDappConnector().
Initialize(cs, chain) == Append(cs, [chain |-> chain, pc |-> "initializing"])

SessionInit ==
    /\ selected \in Chain
    /\ connectors = <<[chain |-> selected, pc |-> "initializing"]>>
    /\ connector = 0 /\ session = NoSession /\ error = FALSE
    /\ wagmi \in BOOLEAN /\ dialog = FALSE
    /\ calls = {}
    /\ page = [view |-> "loader", connection |-> wagmi, due |-> FALSE, connector |-> 0,
               app |-> NoApp]
    /\ stores = [s \in Store |-> NewStore]
    /\ hasty = FALSE

\* It is initialised, and has a session from an earlier visit, of any network,
\* or none.
Initialized(i) ==
    /\ connectors[i].pc = "initializing"
    /\ connectors' = [connectors EXCEPT ![i].pc = "ready"]
    /\ connector' = i
    /\ session' \in {session} \cup {[by |-> i, chain |-> c, late |-> FALSE] : c \in Chain}
    /\ UNCHANGED <<selected, error, wagmi, dialog, calls, storeVars, hasty>>

InitializingFails(i) ==
    /\ connectors[i].pc = "initializing"
    /\ connectors' = [connectors EXCEPT ![i].pc = "failed"]
    /\ connector' = 0
    /\ error' = TRUE
    /\ UNCHANGED <<selected, session, wagmi, dialog, calls, storeVars, hasty>>

\* Broken: the session stays.
DestroyKeepsSession(i) ==
    /\ connectors[i].pc = "ready" => connector' = 0 /\ error' = FALSE /\ UNCHANGED session
    /\ connectors[i].pc # "ready" => UNCHANGED <<connector, session, error>>

\* The cleanup of the effect that made connector i: destroy(), which it only has
\* once the connector is initialised.
Destroy(i) ==
    /\ connectors[i].pc = "ready" => connector' = 0 /\ error' = FALSE /\ session' = NoSession
    /\ connectors[i].pc # "ready" => UNCHANGED <<connector, session, error>>

\* <ChainSelector>, in the dialog: the effect is cleaned up and runs again.
SelectChain(chain) ==
    LET last == Len(connectors)
        cleaned == IF connectors[last].pc = "ready"
                   THEN [connectors EXCEPT ![last].pc = "destroyed"] ELSE connectors
    IN  /\ page.view = "dialog" /\ chain # selected /\ last < MaxConnectors
        /\ selected' = chain
        /\ Destroy(last)
        /\ connectors' = Initialize(cleaned, chain)
        /\ hasty' = (hasty \/ connector = 0)
        /\ UNCHANGED <<wagmi, dialog, calls, storeVars>>

------------------------------------------------------------------------------
(* Wallets.                                                                *)

\* The page calls the connector it was rendered with.
WalletCall(kind, by) ==
    /\ Cardinality(calls) < MaxCalls
    /\ calls' = calls \cup {[kind |-> kind, by |-> by]}
    /\ hasty' = (hasty \/ by # connector)
    /\ UNCHANGED <<selected, connectors, connector, session, error, wagmi, dialog, storeVars>>

\* connect(), from the dialog.
Connect == page.view = "dialog" /\ WalletCall("connect", page.connector)

\* The wallet announces a session: onSessionIframeCreated().
SessionIframeCreated ==
    \E i \in DOMAIN connectors : connectors[i].pc = "ready" /\ WalletCall("connect", i)

\* disconnect() of MultiWalletProvider: of wagmi first.
Disconnect ==
    /\ page.view = "app" /\ page.app.isStoreLoaded
    /\ IF wagmi
       THEN /\ wagmi' = FALSE
            /\ UNCHANGED <<selected, walletVars, dialog, storeVars, hasty>>
       ELSE page.app.kind = "hashgraph" /\ WalletCall("disconnect", page.connector)

\* The wallet answers.  getSessionFromStruct() finds the network of the session
\* and asks for the account's address, and may get no session from it.
CallEnds(call) ==
    /\ call \in calls
    /\ calls' = calls \ {call}
    /\ IF call.kind = "connect"
       THEN session' \in {NoSession} \cup
                {[by |-> call.by, chain |-> c, late |-> call.by # connector] : c \in Chain}
       ELSE session' = NoSession
    /\ UNCHANGED <<selected, connectors, connector, error, wagmi, dialog, storeVars, hasty>>

CallFails(call) ==
    /\ call \in calls
    /\ calls' = calls \ {call}
    /\ UNCHANGED <<selected, connectors, connector, session, error, wagmi, dialog, storeVars,
                   hasty>>

\* session_delete: only a connector that is not destroyed listens.
SessionDelete ==
    /\ \E i \in DOMAIN connectors : connectors[i].pc = "ready"
    /\ session # NoSession /\ session' = NoSession
    /\ UNCHANGED <<selected, connectors, connector, error, calls, wagmi, dialog, storeVars, hasty>>

\* ConnectKit, the wallet itself, or the client that is made anew for another
\* chain.
WagmiChanges ==
    /\ wagmi' = ~wagmi
    /\ UNCHANGED <<selected, walletVars, dialog, storeVars, hasty>>

ShowConnectionDialog ==
    /\ page.view = "app" /\ page.app.isStoreLoaded /\ ~page.connection
    /\ dialog' = TRUE
    /\ UNCHANGED <<selected, walletVars, wagmi, storeVars, hasty>>

HideConnectionDialog ==
    /\ page.view = "dialog"
    /\ dialog' = FALSE
    /\ UNCHANGED <<selected, walletVars, wagmi, storeVars, hasty>>

------------------------------------------------------------------------------
(* Commits and their effects.                                              *)

\* A store that nobody uses any more can stand for a new one.
Free(s) == ~stores[s].pending /\ ~stores[s].observed /\ s # page.app.store

\* LiquityStoreProvider is mounted again where the view or the kind is another.
Stays == page.view = "app" /\ View = "app" /\ page.app.kind = Kind

App(s) ==
    IF Stays
    THEN [page.app EXCEPT !.key = Key, !.store = s]
    ELSE [kind |-> Kind, key |-> Key, store |-> s, isStoreLoaded |-> FALSE]

\* The memo of a HashgraphLiquity holds while its key does.  Every render of
\* LiquityProvider makes a new PlaceholderLiquity, and a new BatchedProvider for
\* a new EthersLiquity.
NeedsStore == View = "app" /\ (page.view # "app" \/ page.app.key # Key \/ Kind # "hashgraph")

\* What a provider that is taken off sets is lost: none observes its store.
Unobserved ==
    [s \in Store |-> [stores[s] EXCEPT !.observed = @ /\ (Stays \/ s # page.app.store)]]

Render ==
    /\ ~page.due
    /\ page.view # View \/ page.connection # hasConnection \/ NeedsStore
    /\ \/ /\ NeedsStore
          /\ \E s \in Store :
               /\ Free(s)
               /\ stores' = [Unobserved EXCEPT ![s] = NewStore]
               /\ page' = [view |-> "app", connection |-> hasConnection, due |-> TRUE,
                           connector |-> connector, app |-> App(s)]
       \/ /\ View # "app"
          /\ stores' = Unobserved
          /\ page' = [view |-> View, connection |-> hasConnection, due |-> TRUE,
                      connector |-> connector, app |-> NoApp]
    /\ dialog' = (dialog /\ View \in {"dialog", "app"})
    /\ UNCHANGED <<selected, walletVars, wagmi, hasty>>

\* Broken: the store that is given up still calls back.
ObserveAlso(s) ==
    [stores EXCEPT ![s].observed = TRUE, ![s].pending = TRUE]

\* The effect of LiquityStoreProvider, after the cleanup of the last one: only
\* the store it is given has an onLoaded(), and is refreshed.
Observe(s) ==
    [t \in Store |-> IF t = s THEN [stores[t] EXCEPT !.observed = TRUE, !.pending = TRUE]
                     ELSE [stores[t] EXCEPT !.observed = FALSE]]

\* ... and the effect of MultiWalletProvider that hides the dialog.
RunEffects ==
    /\ page.due
    /\ page' = [page EXCEPT !.due = FALSE, !.app.isStoreLoaded = FALSE]
    /\ stores' = IF page.view = "app" THEN Observe(page.app.store) ELSE stores
    /\ dialog' = (dialog /\ ~(page.connection /\ page.view \in {"dialog", "app"}))
    /\ UNCHANGED <<selected, walletVars, wagmi, hasty>>

\* refresh() ends: the store is loaded, and calls onLoaded() if it has one.
Refreshed(s) ==
    /\ stores[s].pending
    /\ stores' = [stores EXCEPT ![s].pending = FALSE, ![s].loaded = TRUE]
    /\ page' = IF stores[s].observed /\ ~stores[s].loaded
               THEN [page EXCEPT !.app.isStoreLoaded = TRUE] ELSE page
    /\ UNCHANGED <<selected, walletVars, wagmi, dialog, hasty>>

\* refresh() catches the error and warns.
RefreshFails(s) ==
    /\ stores[s].pending
    /\ stores' = [stores EXCEPT ![s].pending = FALSE]
    /\ UNCHANGED <<selected, walletVars, wagmi, dialog, page, hasty>>

------------------------------------------------------------------------------
SessionNext ==
    \/ \E i \in DOMAIN connectors : Initialized(i) \/ InitializingFails(i)
    \/ \E chain \in Chain : SelectChain(chain)
    \/ Connect \/ SessionIframeCreated \/ Disconnect
    \/ \E call \in calls : CallEnds(call) \/ CallFails(call)
    \/ SessionDelete \/ WagmiChanges
    \/ ShowConnectionDialog \/ HideConnectionDialog
    \/ Render \/ RunEffects
    \/ \E s \in Store : Refreshed(s) \/ RefreshFails(s)

SessionSpec == SessionInit /\ [][SessionNext]_sessionVars

------------------------------------------------------------------------------
(* Properties.                                                             *)

\* Unless the user acts faster than the page renders, the connector is the one
\* of the selected chain, and the session is one that it brought.  The exception
\* is a call of a wallet that was under way when the chain was switched: it sets
\* the session without asking whether its connector was destroyed meanwhile.
WalletFitsChain ==
    /\ connector # 0 /\ ~hasty =>
         connectors[connector].chain = selected /\ connectors[connector].pc = "ready"
    /\ session # NoSession /\ ~hasty => session.by = connector \/ session.late

\* Once its effects have run, the application is shown only if the store of the
\* wallet and the chain in use is loaded: not because its predecessor was, nor
\* because that one is at last, whatever the wallet did meanwhile.
ShownStoreIsLoaded ==
    page.view = "app" /\ page.app.isStoreLoaded /\ ~page.due => stores[page.app.store].loaded

==============================================================================
