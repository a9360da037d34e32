--------------------------- MODULE ConnectionProofs ---------------------------
(***************************************************************************)
(* What the app's connections promise, proved for any chains, stores,      *)
(* clients, blocks, sockets and confirmations.  Of the wallet (Session):   *)
(* it is one of the selected chain, and what is shown has a loaded store.  *)
(* Of the providers: a WebSocket that was closed stays closed, and a       *)
(* batched call is answered from the block it asked for.                   *)
(***************************************************************************)
EXTENDS Session, BatchedProvider, SequenceTheorems, FiniteSetTheorems, TLAPS

-------------------------------------------------------------------------------
(* The wallet.                                                              *)

ConnectorPc == {"initializing", "ready", "failed", "destroyed"}
Connectors == [chain : Chain, pc : ConnectorPc]
Sessions == [by : Nat, chain : Chain \cup {"none"}, late : BOOLEAN]
Kinds == {"none", "hashgraph", "ethers", "placeholder"}
Keys == {<<>>} \cup (Kinds \X Chain \X Sessions \X Nat)
Apps == [kind : Kinds, key : Keys, store : Store \cup {NoStore}, isStoreLoaded : BOOLEAN]
Views == {"error", "loader", "dialog", "app"}
Pages == [view : Views, connection : BOOLEAN, due : BOOLEAN, connector : Nat, app : Apps]
StoreStates == [pending : BOOLEAN, loaded : BOOLEAN, observed : BOOLEAN]
CallKinds == {"connect", "disconnect"}

WalletTypes ==
    /\ selected \in Chain
    /\ connectors \in Seq(Connectors)
    /\ connector \in Nat
    /\ session \in Sessions
    /\ wagmi \in BOOLEAN
    /\ calls \subseteq [kind : CallKinds, by : Nat]
    /\ hasty \in BOOLEAN

SessionTypeOK ==
    /\ WalletTypes
    /\ page \in Pages
    /\ stores \in [Store -> StoreStates]

\* The connector of the selected chain is the last that was made; where the
\* user was never hasty, all earlier ones have failed or are destroyed, so none
\* of them can become the connector any more.
ConnectorsInOrder ==
    /\ Len(connectors) # 0
    /\ connectors[Len(connectors)].chain = selected
    /\ ~hasty => /\ \A i \in 1 .. Len(connectors) : i # Len(connectors) =>
                      connectors[i].pc \in {"destroyed", "failed"}
                 /\ connector # 0 => /\ connector = Len(connectors)
                                     /\ connectors[connector].pc = "ready"

\* A session names the connector that brought it, and only the connector there
\* is has brought one that is not late.
SessionsNamed ==
    /\ session # NoSession => session.by # 0
    /\ session # NoSession /\ ~hasty => session.by = connector \/ session.late
    /\ \A made \in calls : made.kind = "connect" => made.by # 0
    /\ page.view = "dialog" => page.connector # 0

WalletInv == WalletTypes /\ page \in Pages /\ ConnectorsInOrder /\ SessionsNamed

\* Where the effects have run, only the store of the page is observed, and none
\* where the page is not the application.
ObservedIsShown ==
    /\ page.view = "app" => page.app.store \in Store
    /\ page.view = "app" /\ ~page.due =>
         \A s \in Store : stores[s].observed => s = page.app.store
    /\ page.view # "app" => \A s \in Store : ~stores[s].observed

StoreInv == SessionTypeOK /\ ObservedIsShown /\ ShownStoreIsLoaded

------------------------------------------------------------------------------
(* The connector and the session.                                          *)

\* What becomes of one connector leaves the others, and every chain, alone.
Becomes(cs, i, pc) == [cs EXCEPT ![i].pc = pc]

LEMMA BecomesOf ==
    ASSUME NEW cs \in Seq(Connectors), NEW i \in 1 .. Len(cs), NEW pc \in ConnectorPc,
           NEW ds, ds = Becomes(cs, i, pc)
    PROVE  /\ ds \in Seq(Connectors) /\ Len(ds) = Len(cs)
           /\ \A j \in 1 .. Len(cs) : /\ ds[j].chain = cs[j].chain
                                      /\ ds[j].pc = IF j = i THEN pc ELSE cs[j].pc
           /\ \A j \in 1 .. Len(cs) : j # i => ds[j] = cs[j]
<1> DEFINE r == [cs[i] EXCEPT !.pc = pc]
<1>1. cs[i] \in Connectors
  OBVIOUS
<1>2. r \in Connectors /\ r.pc = pc /\ r.chain = cs[i].chain
  BY <1>1 DEF Connectors
<1>3. ds = [cs EXCEPT ![i] = r]
  BY DEF Becomes
<1> HIDE DEF r
<1>4. ds \in Seq(Connectors) /\ Len(ds) = Len(cs)
      /\ \A j \in 1 .. Len(cs) : ds[j] = IF j = i THEN r ELSE cs[j]
  BY <1>2, <1>3, ExceptSeq
<1> QED
  BY <1>2, <1>4

LEMMA NoSessionType == NoSession \in Sessions
BY DEF NoSession, Sessions

LEMMA NoAppType == NoApp \in Apps
<1>1. <<>> \in Keys
  BY DEF Keys
<1> QED
  BY <1>1 DEF NoApp, Apps, Kinds

LEMMA SessionType ==
    ASSUME NEW by \in Nat, NEW c \in Chain, NEW late \in BOOLEAN
    PROVE  [by |-> by, chain |-> c, late |-> late] \in Sessions
BY DEF Sessions

LEMMA InitWallet == SessionInit => WalletInv
<1> SUFFICES ASSUME SessionInit PROVE WalletInv
  OBVIOUS
<1> USE DEF SessionInit
<1>1. connectors \in Seq(Connectors) /\ Len(connectors) = 1
  <2>1. [chain |-> selected, pc |-> "initializing"] \in Connectors
    BY DEF Connectors, ConnectorPc
  <2> QED
    BY <2>1
<1>2. NoSession \in Sessions
  BY NoSessionType
<1>3. page \in Pages
  BY NoAppType DEF Pages, Views
<1>4. WalletTypes
  BY <1>1, <1>2 DEF WalletTypes
<1>5. ConnectorsInOrder
  BY <1>1 DEF ConnectorsInOrder
<1>6. SessionsNamed
  BY DEF SessionsNamed
<1> QED
  BY <1>3, <1>4, <1>5, <1>6 DEF WalletInv

LEMMA InitializedWallet ==
    ASSUME WalletInv, NEW i \in DOMAIN connectors, Initialized(i)
    PROVE  WalletInv'
<1> USE DEF WalletInv, WalletTypes, Initialized, storeVars
<1>1. i \in 1 .. Len(connectors) /\ i \in Nat /\ i # 0
  OBVIOUS
<1>2. connectors' \in Seq(Connectors) /\ Len(connectors') = Len(connectors)
      /\ \A j \in 1 .. Len(connectors) :
           /\ connectors'[j].chain = connectors[j].chain
           /\ connectors'[j].pc = IF j = i THEN "ready" ELSE connectors[j].pc
  <2>1. connectors \in Seq(Connectors) /\ connectors' = Becomes(connectors, i, "ready")
    BY DEF Becomes
  <2>2. "ready" \in ConnectorPc
    BY DEF ConnectorPc
  <2> QED
    BY ONLY <1>1, <2>1, <2>2, BecomesOf
<1>3. session' \in Sessions
  <2>1. session' = session \/ \E c \in Chain : session' = [by |-> i, chain |-> c, late |-> FALSE]
    OBVIOUS
  <2> QED
    BY <1>1, <2>1, SessionType
<1>4. ~hasty => i = Len(connectors) /\ connector = 0
  <2>1. connectors[i].pc = "initializing"
    OBVIOUS
  <2>2. Len(connectors) \in Nat
    OBVIOUS
  <2> QED
    BY <1>1, <2>1, <2>2 DEF ConnectorsInOrder
<1>5. ConnectorsInOrder'
  <2>1. /\ selected' = selected /\ hasty' = hasty /\ connector' = i
        /\ ConnectorsInOrder /\ Len(connectors) \in Nat
    OBVIOUS
  <2> QED
    BY ONLY <1>1, <1>2, <1>4, <2>1 DEF ConnectorsInOrder
<1>6. SessionsNamed'
  <2>1. session' # NoSession => session'.by # 0
    BY <1>1 DEF SessionsNamed
  <2>2. session' # NoSession /\ ~hasty => session'.by = i \/ session'.late
    BY <1>4 DEF SessionsNamed
  <2> QED
    BY <2>1, <2>2 DEF SessionsNamed
<1> QED
  BY <1>1, <1>2, <1>3, <1>5, <1>6

LEMMA InitializingFailsWallet ==
    ASSUME WalletInv, NEW i \in DOMAIN connectors, InitializingFails(i)
    PROVE  WalletInv'
<1> USE DEF WalletInv, WalletTypes, InitializingFails, storeVars
<1>1. i \in 1 .. Len(connectors) /\ i \in Nat /\ i # 0
  OBVIOUS
<1>2. connectors' \in Seq(Connectors) /\ Len(connectors') = Len(connectors)
      /\ \A j \in 1 .. Len(connectors) :
           /\ connectors'[j].chain = connectors[j].chain
           /\ connectors'[j].pc = IF j = i THEN "failed" ELSE connectors[j].pc
  <2>1. connectors \in Seq(Connectors) /\ connectors' = Becomes(connectors, i, "failed")
    BY DEF Becomes
  <2>2. "failed" \in ConnectorPc
    BY DEF ConnectorPc
  <2> QED
    BY ONLY <1>1, <2>1, <2>2, BecomesOf
<1>4. ~hasty => i = Len(connectors) /\ connector = 0
  <2>1. connectors[i].pc = "initializing"
    OBVIOUS
  <2>2. Len(connectors) \in Nat
    OBVIOUS
  <2> QED
    BY <1>1, <2>1, <2>2 DEF ConnectorsInOrder
<1>5. ConnectorsInOrder'
  BY <1>1, <1>2, <1>4 DEF ConnectorsInOrder
<1>6. SessionsNamed'
  BY <1>4 DEF SessionsNamed
<1> QED
  BY <1>1, <1>2, <1>5, <1>6

\* In the dialog there was a connector when the page was committed.  If there is
\* one still it is the last, and is destroyed with its session; if there is none
\* the user was hasty.
LEMMA SelectChainWallet ==
    ASSUME WalletInv, NEW chain \in Chain, SelectChain(chain)
    PROVE  WalletInv'
<1> USE DEF WalletInv, WalletTypes
<1> DEFINE last == Len(connectors)
           cleaned == IF connectors[last].pc = "ready"
                      THEN [connectors EXCEPT ![last].pc = "destroyed"] ELSE connectors
<1>1. /\ selected' = chain /\ Destroy(last)
      /\ connectors' = Append(cleaned, [chain |-> chain, pc |-> "initializing"])
      /\ hasty' = (hasty \/ connector = 0)
      /\ UNCHANGED <<wagmi, calls, page>>
  BY DEF SelectChain, Initialize, storeVars
<1>2. last \in Nat /\ last # 0 /\ last \in 1 .. last
  BY DEF ConnectorsInOrder
<1>3. /\ cleaned \in Seq(Connectors) /\ Len(cleaned) = last
      /\ \A j \in 1 .. last : j # last => cleaned[j] = connectors[j]
      /\ connectors[last].pc = "ready" => cleaned[last].pc = "destroyed"
  <2>1. CASE connectors[last].pc = "ready"
    <3>1. cleaned = Becomes(connectors, last, "destroyed") /\ "destroyed" \in ConnectorPc
      BY <2>1 DEF Becomes, ConnectorPc
    <3> HIDE DEF cleaned
    <3>2. /\ cleaned \in Seq(Connectors) /\ Len(cleaned) = last
          /\ \A j \in 1 .. last : cleaned[j].pc = IF j = last THEN "destroyed"
                                                  ELSE connectors[j].pc
          /\ \A j \in 1 .. last : j # last => cleaned[j] = connectors[j]
      <4>1. connectors \in Seq(Connectors)
        OBVIOUS
      <4>2. PICK n \in 1 .. Len(connectors) : n = last
        BY <1>2
      <4>3. cleaned = Becomes(connectors, n, "destroyed")
        BY <3>1, <4>2
      <4>4. /\ cleaned \in Seq(Connectors) /\ Len(cleaned) = Len(connectors)
            /\ \A j \in 1 .. Len(connectors) :
                 cleaned[j].pc = IF j = n THEN "destroyed" ELSE connectors[j].pc
            /\ \A j \in 1 .. Len(connectors) : j # n => cleaned[j] = connectors[j]
        BY ONLY <3>1, <4>1, <4>3, BecomesOf
      <4> QED
        BY <4>2, <4>4
    <3> QED
      BY <1>2, <3>2
  <2> QED
    BY <2>1
<1> HIDE DEF cleaned
<1>5. connectors' \in Seq(Connectors) /\ Len(connectors') = last + 1
      /\ connectors'[last + 1] = [chain |-> chain, pc |-> "initializing"]
      /\ \A j \in 1 .. last : connectors'[j] = cleaned[j]
  <2> DEFINE new == [chain |-> chain, pc |-> "initializing"]
  <2>1. new \in Connectors /\ connectors' = Append(cleaned, new)
    BY <1>1 DEF Connectors, ConnectorPc
  <2> HIDE DEF new
  <2>2. connectors' \in Seq(Connectors) /\ Len(connectors') = last + 1
        /\ connectors'[last + 1] = new /\ \A j \in 1 .. last : connectors'[j] = cleaned[j]
    BY <2>1, <1>2, <1>3, AppendProperties
  <2> QED
    BY <2>2 DEF new
<1>6. ~hasty' => connectors[last].pc = "ready" /\ connector' = 0 /\ session' = NoSession
  BY <1>1 DEF ConnectorsInOrder, Destroy
<1>7. connector' \in Nat /\ session' \in Sessions
  BY <1>1, NoSessionType DEF Destroy
<1>8. session' # NoSession => session'.by # 0
  BY <1>1 DEF Destroy, SessionsNamed
<1>9. ConnectorsInOrder'
  <2>1. ~hasty' => \A j \in 1 .. Len(connectors') : j # Len(connectors') =>
                     connectors'[j].pc \in {"destroyed", "failed"}
    <3> SUFFICES ASSUME ~hasty', NEW j \in 1 .. last
                 PROVE  connectors'[j].pc \in {"destroyed", "failed"}
      BY <1>2, <1>5
    <3>1. connectors'[j] = cleaned[j] /\ ~hasty
      BY <1>1, <1>5
    <3>2. CASE j = last
      <4>1. cleaned[last].pc = "destroyed"
        BY <1>3, <1>6
      <4> QED
        BY ONLY <3>1, <3>2, <4>1
    <3>3. CASE j # last
      <4>1. cleaned[j] = connectors[j] /\ connectors[j].pc \in {"destroyed", "failed"}
        BY <3>1, <3>3, <1>3 DEF ConnectorsInOrder
      <4> QED
        BY ONLY <3>1, <4>1
    <3> QED
      BY <3>2, <3>3
  <2> QED
    BY <2>1, <1>1, <1>2, <1>5, <1>6 DEF ConnectorsInOrder
<1>10. SessionsNamed'
  BY <1>1, <1>6, <1>8 DEF SessionsNamed
<1> QED
  BY <1>1, <1>5, <1>7, <1>9, <1>10

LEMMA CallWallet ==
    ASSUME WalletInv, NEW kind \in CallKinds, NEW by \in Nat, WalletCall(kind, by),
           kind = "connect" => by # 0
    PROVE  WalletInv'
<1> USE DEF WalletInv, WalletCall, storeVars
<1>1. WalletTypes'
  BY DEF WalletTypes
<1>2. ConnectorsInOrder'
  BY DEF ConnectorsInOrder
<1>3. \A c \in calls' : c.kind = "connect" => c.by # 0
  BY DEF SessionsNamed
<1>4. SessionsNamed'
  BY <1>3 DEF SessionsNamed
<1> QED
  BY <1>1, <1>2, <1>4

LEMMA CallEndsWallet ==
    ASSUME WalletInv, NEW made \in calls, CallEnds(made) \/ CallFails(made)
    PROVE  WalletInv'
<1> USE DEF WalletInv, CallEnds, CallFails, storeVars
<1>1. made \in [kind : CallKinds, by : Nat]
  BY DEF WalletTypes
<1>2. \/ session' \in {session, NoSession}
      \/ /\ made.kind = "connect"
         /\ \E c \in Chain :
              session' = [by |-> made.by, chain |-> c, late |-> made.by # connector]
  OBVIOUS
<1>3. session' \in Sessions
  BY <1>1, <1>2, NoSessionType, SessionType DEF WalletTypes
<1>a. session' # NoSession =>
        session'.by # 0 /\ (~hasty => session'.by = connector \/ session'.late)
  <2>1. CASE session' \in {session, NoSession}
    BY <2>1 DEF SessionsNamed
  <2>2. ASSUME made.kind = "connect", NEW c \in Chain,
               session' = [by |-> made.by, chain |-> c, late |-> made.by # connector]
        PROVE  session'.by # 0 /\ (session'.by = connector \/ session'.late)
    <3>1. made.by # 0
      BY <2>2 DEF SessionsNamed
    <3>2. session'.by = made.by /\ session'.late = (made.by # connector)
      BY ONLY <2>2
    <3> QED
      BY ONLY <3>1, <3>2
  <2> QED
    BY <1>2, <2>1, <2>2
<1>4. WalletTypes'
  BY <1>3 DEF WalletTypes
<1>5. ConnectorsInOrder'
  BY DEF ConnectorsInOrder
<1>6. SessionsNamed'
  BY <1>a DEF SessionsNamed
<1> QED
  BY <1>4, <1>5, <1>6

------------------------------------------------------------------------------
(* What is committed.                                                      *)

LEMMA KeyType ==
    ASSUME WalletTypes
    PROVE  Kind \in Kinds /\ Key \in Keys
<1>1. Kind \in Kinds
  BY DEF Kind, Kinds
<1>2. Key \in Kinds \X Chain \X Sessions \X Nat
  BY <1>1 DEF Key, WalletTypes
<1> QED
  BY <1>1, <1>2 DEF Keys

\* A provider that stays keeps isStoreLoaded; one that is mounted has it unset.
LEMMA AppType ==
    ASSUME WalletTypes, page \in Pages, NEW s \in Store
    PROVE  /\ App(s) \in Apps /\ App(s).store = s
           /\ ~Stays => ~App(s).isStoreLoaded
<1>1. Kind \in Kinds /\ Key \in Keys
  BY KeyType
<1>2. page.app \in Apps
  BY DEF Pages
<1>3. CASE Stays
  <2> DEFINE a == [page.app EXCEPT !.key = Key]
  <2>1. a \in Apps
    BY <1>1, <1>2 DEF Apps
  <2> HIDE DEF a
  <2>2. [a EXCEPT !.store = s] \in Apps /\ [a EXCEPT !.store = s].store = s
    BY <2>1 DEF Apps
  <2>3. App(s) = [a EXCEPT !.store = s]
    BY <1>3 DEF App, a
  <2> QED
    BY <1>3, <2>2, <2>3
<1>4. CASE ~Stays
  BY <1>1, <1>4 DEF App, Apps
<1> QED
  BY <1>3, <1>4

\* The dialog is committed only where there is a connector.
LEMMA RenderPage ==
    ASSUME WalletTypes, page \in Pages, Render
    PROVE  page' \in Pages /\ (page'.view = "dialog" => page'.connector # 0)
<1>1. hasConnection \in BOOLEAN /\ connector \in Nat
  BY DEF hasConnection, hasHederaDappConnector, WalletTypes
<1>2. View \in Views /\ (View = "dialog" => connector # 0)
  BY DEF View, Views
<1>3. CASE NeedsStore /\ \E s \in Store :
        page' = [view |-> "app", connection |-> hasConnection, due |-> TRUE,
                 connector |-> connector, app |-> App(s)]
  <2>1. PICK s \in Store :
          page' = [view |-> "app", connection |-> hasConnection, due |-> TRUE,
                   connector |-> connector, app |-> App(s)]
    BY <1>3
  <2>2. App(s) \in Apps
    BY AppType
  <2> QED
    BY <1>1, <2>1, <2>2 DEF Pages, Views
<1>4. CASE page' = [view |-> View, connection |-> hasConnection, due |-> TRUE,
                    connector |-> connector, app |-> NoApp]
  BY <1>1, <1>2, <1>4, NoAppType DEF Pages
<1> QED
  BY <1>3, <1>4 DEF Render

\* Only isStoreLoaded changes.
Loads(p, b) == [p EXCEPT !.app.isStoreLoaded = b]

LEMMA LoadsType ==
    ASSUME NEW p \in Pages, NEW b \in BOOLEAN, NEW q, q = Loads(p, b)
    PROVE  /\ q \in Pages
           /\ q.view = p.view /\ q.due = p.due /\ q.connector = p.connector
           /\ q.app.store = p.app.store /\ q.app.isStoreLoaded = b
<1> DEFINE a == [p.app EXCEPT !.isStoreLoaded = b]
<1>1. p.app \in Apps
  BY DEF Pages
<1>2. a \in Apps /\ a.isStoreLoaded = b /\ a.store = p.app.store
  BY <1>1 DEF Apps
<1>3. q = [p EXCEPT !.app = a]
  BY DEF Loads
<1> HIDE DEF a
<1> QED
  BY <1>2, <1>3 DEF Pages

LEMMA EffectsPage ==
    ASSUME page \in Pages, RunEffects
    PROVE  /\ page' \in Pages
           /\ page'.view = page.view /\ page'.connector = page.connector
           /\ ~page'.due /\ page'.app.store = page.app.store /\ ~page'.app.isStoreLoaded
<1> DEFINE p == [page EXCEPT !.due = FALSE]
<1>1. /\ p \in Pages /\ p.due = FALSE /\ p.app = page.app
      /\ p.view = page.view /\ p.connector = page.connector
  BY DEF Pages
<1>2. page' = Loads(p, FALSE)
  BY DEF RunEffects, Loads
<1> HIDE DEF p
<1>3. /\ page' \in Pages /\ page'.view = p.view /\ page'.connector = p.connector
      /\ page'.due = p.due /\ page'.app.store = p.app.store /\ page'.app.isStoreLoaded = FALSE
  BY <1>1, <1>2, LoadsType
<1> QED
  BY <1>1, <1>3

LEMMA RefreshedPage ==
    ASSUME page \in Pages, NEW s \in Store, Refreshed(s) \/ RefreshFails(s)
    PROVE  /\ page' \in Pages
           /\ page'.view = page.view /\ page'.connector = page.connector
           /\ page'.due = page.due /\ page'.app.store = page.app.store
           /\ page' = page \/ (Refreshed(s) /\ stores[s].observed)
<1>1. page' = page \/ (Refreshed(s) /\ stores[s].observed
                        /\ page' = Loads(page, TRUE))
  BY DEF Refreshed, RefreshFails, Loads
<1> QED
  BY <1>1, LoadsType

\* One step per action that touches the wallet's state; the others only commit.
LEMMA NextWallet == WalletInv /\ [SessionNext]_sessionVars => WalletInv'
<1> SUFFICES ASSUME WalletInv, [SessionNext]_sessionVars PROVE WalletInv'
  OBVIOUS
<1>1. ASSUME NEW i \in DOMAIN connectors, Initialized(i) \/ InitializingFails(i)
      PROVE  WalletInv'
  BY <1>1, InitializedWallet, InitializingFailsWallet
<1>2. ASSUME NEW chain \in Chain, SelectChain(chain)
      PROVE  WalletInv'
  BY <1>2, SelectChainWallet
<1>3. CASE Connect
  <2>1. page.connector \in Nat /\ page.connector # 0 /\ WalletCall("connect", page.connector)
    BY <1>3 DEF Connect, WalletInv, SessionsNamed, Pages
  <2>2. "connect" \in CallKinds
    BY DEF CallKinds
  <2> QED
    BY <2>1, <2>2, CallWallet
<1>4. CASE SessionIframeCreated
  <2>1. PICK i \in DOMAIN connectors : WalletCall("connect", i)
    BY <1>4 DEF SessionIframeCreated
  <2>2. i \in Nat /\ i # 0
    BY DEF WalletInv, WalletTypes
  <2>3. "connect" \in CallKinds
    BY DEF CallKinds
  <2> QED
    BY <2>1, <2>2, <2>3, CallWallet
<1>5. CASE Disconnect
  <2>1. CASE wagmi
    <3>1. wagmi' = FALSE /\ UNCHANGED <<selected, walletVars, page, hasty>>
      BY <1>5, <2>1 DEF Disconnect, storeVars
    <3> QED
      BY <3>1 DEF WalletInv, WalletTypes, ConnectorsInOrder, SessionsNamed, walletVars
  <2>2. CASE ~wagmi
    <3>1. page.connector \in Nat /\ WalletCall("disconnect", page.connector)
      BY <1>5, <2>2 DEF Disconnect, WalletInv, Pages
    <3>2. "disconnect" \in CallKinds /\ "disconnect" # "connect"
      BY DEF CallKinds
    <3> QED
      BY <3>1, <3>2, CallWallet
  <2> QED
    BY <2>1, <2>2
<1>6. ASSUME NEW made \in calls, CallEnds(made) \/ CallFails(made)
      PROVE  WalletInv'
  BY <1>6, CallEndsWallet
<1>7. CASE SessionDelete
  BY <1>7, NoSessionType
  DEF SessionDelete, WalletInv, WalletTypes, ConnectorsInOrder, SessionsNamed, storeVars
<1>8. CASE WagmiChanges
  <2>1. wagmi' \in BOOLEAN /\ UNCHANGED <<selected, walletVars, page, hasty>>
    BY <1>8 DEF WagmiChanges, WalletInv, WalletTypes, storeVars
  <2> QED
    BY <2>1 DEF WalletInv, WalletTypes, ConnectorsInOrder, SessionsNamed, walletVars
<1>9. ASSUME UNCHANGED <<selected, walletVars, wagmi, hasty>>, page' \in Pages,
             page'.view = "dialog" => page'.connector # 0
      PROVE  WalletInv'
  BY <1>9 DEF WalletInv, WalletTypes, ConnectorsInOrder, SessionsNamed, walletVars
<1>10. CASE ShowConnectionDialog \/ HideConnectionDialog \/ UNCHANGED sessionVars
  <2>1. UNCHANGED <<selected, walletVars, wagmi, hasty, page>>
    BY <1>10 DEF ShowConnectionDialog, HideConnectionDialog, sessionVars, storeVars
  <2> QED
    BY <2>1, <1>9 DEF WalletInv, SessionsNamed
<1>11. CASE Render
  <2>1. UNCHANGED <<selected, walletVars, wagmi, hasty>>
    BY <1>11 DEF Render
  <2>2. page' \in Pages /\ (page'.view = "dialog" => page'.connector # 0)
    BY <1>11, RenderPage DEF WalletInv
  <2> QED
    BY <2>1, <2>2, <1>9
<1>12. CASE RunEffects
  <2>1. UNCHANGED <<selected, walletVars, wagmi, hasty>>
    BY <1>12 DEF RunEffects
  <2>2. page' \in Pages /\ page'.view = page.view /\ page'.connector = page.connector
    BY <1>12, EffectsPage DEF WalletInv
  <2> QED
    BY <2>1, <2>2, <1>9 DEF WalletInv, SessionsNamed
<1>13. ASSUME NEW s \in Store, Refreshed(s) \/ RefreshFails(s)
       PROVE  WalletInv'
  <2>1. UNCHANGED <<selected, walletVars, wagmi, hasty>>
    BY <1>13 DEF Refreshed, RefreshFails
  <2>2. page' \in Pages /\ page'.view = page.view /\ page'.connector = page.connector
    BY <1>13, RefreshedPage DEF WalletInv
  <2> QED
    BY <2>1, <2>2, <1>9 DEF WalletInv, SessionsNamed
<1> QED
  BY <1>1, <1>2, <1>3, <1>4, <1>5, <1>6, <1>7, <1>8, <1>10, <1>11, <1>12, <1>13 DEF SessionNext

\* The connector, and a session that is not late, are those of the selected chain,
\* whatever initialisations and calls of wallets end in whatever order, unless the
\* user acts on a page of a connector that is gone.
THEOREM WalletFits == SessionSpec => []WalletFitsChain
<1>1. WalletInv => WalletFitsChain
  BY DEF WalletInv, ConnectorsInOrder, SessionsNamed, WalletFitsChain
<1> QED
  BY <1>1, InitWallet, NextWallet, PTL DEF SessionSpec

------------------------------------------------------------------------------
(* The store of the page.                                                  *)

LEMMA InitStore == SessionInit => StoreInv
<1> SUFFICES ASSUME SessionInit PROVE StoreInv
  OBVIOUS
<1>1. WalletTypes /\ page \in Pages
  BY InitWallet DEF WalletInv
<1>2. stores \in [Store -> StoreStates] /\ \A s \in Store : stores[s].observed = FALSE
  BY DEF SessionInit, NewStore, StoreStates
<1>3. page.view = "loader"
  BY DEF SessionInit
<1> QED
  BY <1>1, <1>2, <1>3 DEF StoreInv, SessionTypeOK, ObservedIsShown, ShownStoreIsLoaded

\* A provider that is taken off leaves no store observed.
LEMMA UnobservedStores ==
    ASSUME StoreInv
    PROVE  /\ Unobserved \in [Store -> StoreStates]
           /\ ~page.due /\ View # "app" => \A s \in Store : ~Unobserved[s].observed
<1> DEFINE kept(s) == stores[s].observed /\ (Stays \/ s # page.app.store)
<1>1. ASSUME NEW s \in Store
      PROVE  Unobserved[s] \in StoreStates /\ Unobserved[s].observed = kept(s)
  <2>1. stores[s] \in StoreStates
    BY DEF StoreInv, SessionTypeOK
  <2>2. kept(s) \in BOOLEAN
    OBVIOUS
  <2>3. Unobserved[s] = [stores[s] EXCEPT !.observed = kept(s)]
    BY DEF Unobserved
  <2> HIDE DEF kept
  <2> QED
    BY <2>1, <2>2, <2>3 DEF StoreStates
<1>2. Unobserved \in [Store -> StoreStates]
  <2>1. Unobserved = [s \in Store |-> Unobserved[s]]
    BY DEF Unobserved
  <2> QED
    BY <1>1, <2>1
<1>3. ASSUME ~page.due, View # "app", NEW s \in Store
      PROVE  ~kept(s)
  <2>1. ~Stays
    BY <1>3 DEF Stays
  <2>2. stores[s].observed => page.view = "app" /\ s = page.app.store
    BY <1>3 DEF StoreInv, ObservedIsShown
  <2> QED
    BY <2>1, <2>2
<1> QED
  BY <1>1, <1>2, <1>3

\* What a render commits is not observed yet.
LEMMA RenderStore ==
    ASSUME StoreInv, WalletTypes', Render
    PROVE  StoreInv'
<1>1. page' \in Pages
  BY RenderPage DEF StoreInv, SessionTypeOK
<1>2. CASE NeedsStore /\ \E s \in Store :
        /\ stores' = [Unobserved EXCEPT ![s] = NewStore]
        /\ page' = [view |-> "app", connection |-> hasConnection, due |-> TRUE,
                    connector |-> connector, app |-> App(s)]
  <2>1. PICK s \in Store :
          /\ stores' = [Unobserved EXCEPT ![s] = NewStore]
          /\ page' = [view |-> "app", connection |-> hasConnection, due |-> TRUE,
                      connector |-> connector, app |-> App(s)]
    BY <1>2
  <2>2. NewStore \in StoreStates
    BY DEF NewStore, StoreStates
  <2>3. stores' \in [Store -> StoreStates]
    BY <2>1, <2>2, UnobservedStores
  <2>4. page'.view = "app" /\ page'.due = TRUE /\ page'.app.store = s
    BY <2>1, AppType DEF StoreInv, SessionTypeOK
  <2> QED
    BY <1>1, <2>3, <2>4 DEF StoreInv, SessionTypeOK, ObservedIsShown, ShownStoreIsLoaded
<1>3. CASE /\ View # "app" /\ ~page.due
           /\ stores' = Unobserved
           /\ page' = [view |-> View, connection |-> hasConnection, due |-> TRUE,
                       connector |-> connector, app |-> NoApp]
  <2>1. stores' \in [Store -> StoreStates] /\ \A s \in Store : ~stores'[s].observed
    BY <1>3, UnobservedStores
  <2>2. page'.view # "app"
    BY <1>3
  <2> QED
    BY <1>1, <2>1, <2>2 DEF StoreInv, SessionTypeOK, ObservedIsShown, ShownStoreIsLoaded
<1> QED
  BY <1>2, <1>3 DEF Render

\* The cleanup takes the callback of every other store; isStoreLoaded is unset.
LEMMA EffectsStore ==
    ASSUME StoreInv, WalletTypes', RunEffects
    PROVE  StoreInv'
<1>1. /\ page' \in Pages /\ page'.view = page.view
      /\ page'.app.store = page.app.store /\ ~page'.app.isStoreLoaded
  BY EffectsPage DEF StoreInv, SessionTypeOK
<1>2. CASE page.view = "app"
  <2> DEFINE p == page.app.store
  <2>1. stores' = Observe(p) /\ p \in Store
    BY <1>2 DEF RunEffects, StoreInv, ObservedIsShown
  <2>2. ASSUME NEW t \in Store
        PROVE  stores'[t] \in StoreStates /\ (t # p => ~stores'[t].observed)
    <3>1. stores[t] \in StoreStates
      BY DEF StoreInv, SessionTypeOK
    <3>2. CASE t = p
      <4> DEFINE r == [stores[t] EXCEPT !.observed = TRUE]
      <4>1. r \in StoreStates
        BY <3>1 DEF StoreStates
      <4>2. stores'[t] = [r EXCEPT !.pending = TRUE]
        BY <2>1, <3>2 DEF Observe
      <4> HIDE DEF r
      <4> QED
        BY <3>2, <4>1, <4>2 DEF StoreStates
    <3>3. CASE t # p
      <4>1. stores'[t] = [stores[t] EXCEPT !.observed = FALSE]
        BY <2>1, <3>3 DEF Observe
      <4> QED
        BY <3>1, <4>1 DEF StoreStates
    <3> QED
      BY <3>2, <3>3
  <2>3. stores' \in [Store -> StoreStates]
    <3>1. stores' = [t \in Store |-> stores'[t]]
      BY <2>1 DEF Observe
    <3> QED
      BY <2>2, <3>1
  <2> QED
    BY <1>1, <1>2, <2>1, <2>2, <2>3
    DEF StoreInv, SessionTypeOK, ObservedIsShown, ShownStoreIsLoaded
<1>3. CASE page.view # "app"
  <2>1. stores' = stores
    BY <1>3 DEF RunEffects
  <2> QED
    BY <1>1, <1>3, <2>1 DEF StoreInv, SessionTypeOK, ObservedIsShown, ShownStoreIsLoaded
<1> QED
  BY <1>2, <1>3

\* A refresh that ends calls back only the page that observes its store, which is
\* then loaded; no refresh unloads a store.
LEMMA RefreshedStore ==
    ASSUME StoreInv, WalletTypes', NEW s \in Store, Refreshed(s) \/ RefreshFails(s)
    PROVE  StoreInv'
<1>1. /\ page' \in Pages /\ page'.view = page.view
      /\ page'.due = page.due /\ page'.app.store = page.app.store
      /\ page' = page \/ (Refreshed(s) /\ stores[s].observed)
  BY RefreshedPage DEF StoreInv, SessionTypeOK
<1>2. stores[s] \in StoreStates
  BY DEF StoreInv, SessionTypeOK
<1>3. PICK r \in StoreStates :
        /\ stores' = [stores EXCEPT ![s] = r]
        /\ r.observed = stores[s].observed
        /\ Refreshed(s) \/ stores[s].loaded => r.loaded
  <2> DEFINE q == [stores[s] EXCEPT !.pending = FALSE]
  <2>1. q \in StoreStates /\ q.observed = stores[s].observed /\ q.loaded = stores[s].loaded
    BY <1>2 DEF StoreStates
  <2>2. CASE RefreshFails(s) /\ ~Refreshed(s)
    <3>1. stores' = [stores EXCEPT ![s] = q]
      BY <2>2 DEF RefreshFails
    <3> QED
      BY <2>1, <2>2, <3>1
  <2>3. CASE Refreshed(s)
    <3> DEFINE r == [q EXCEPT !.loaded = TRUE]
    <3>1. stores' = [stores EXCEPT ![s] = r]
      BY <2>3 DEF Refreshed
    <3> HIDE DEF q
    <3>2. r \in StoreStates /\ r.observed = q.observed /\ r.loaded = TRUE
      BY <2>1 DEF StoreStates
    <3> HIDE DEF r
    <3> QED
      BY <2>1, <3>1, <3>2
  <2> QED
    BY <2>2, <2>3
<1>4. stores' \in [Store -> StoreStates]
      /\ \A t \in Store : /\ stores'[t].observed = stores[t].observed
                          /\ stores[t].loaded => stores'[t].loaded
  BY <1>3 DEF StoreInv, SessionTypeOK
<1>5. Refreshed(s) => stores'[s].loaded
  BY <1>3 DEF StoreInv, SessionTypeOK
<1>6. ObservedIsShown'
  BY <1>1, <1>4 DEF StoreInv, ObservedIsShown
<1>7. ShownStoreIsLoaded'
  <2>1. CASE page' = page
    BY <1>4, <2>1 DEF StoreInv, ShownStoreIsLoaded, ObservedIsShown
  <2>2. CASE Refreshed(s) /\ stores[s].observed
    BY <1>1, <1>5, <2>2 DEF StoreInv, ShownStoreIsLoaded, ObservedIsShown
  <2> QED
    BY <1>1, <2>1, <2>2
<1> QED
  BY <1>1, <1>4, <1>6, <1>7 DEF StoreInv, SessionTypeOK

LEMMA NextStore == StoreInv /\ WalletTypes' /\ [SessionNext]_sessionVars => StoreInv'
<1> SUFFICES ASSUME StoreInv, WalletTypes', [SessionNext]_sessionVars PROVE StoreInv'
  OBVIOUS
<1>1. ASSUME UNCHANGED storeVars PROVE StoreInv'
  BY <1>1 DEF storeVars, StoreInv, SessionTypeOK, ObservedIsShown, ShownStoreIsLoaded
<1>2. CASE Render
  BY <1>2, RenderStore
<1>3. CASE RunEffects
  BY <1>3, EffectsStore
<1>4. ASSUME NEW s \in Store, Refreshed(s) \/ RefreshFails(s) PROVE StoreInv'
  BY <1>4, RefreshedStore
<1>5. ASSUME NEW i \in DOMAIN connectors, Initialized(i) \/ InitializingFails(i)
      PROVE  UNCHANGED storeVars
  BY <1>5 DEF Initialized, InitializingFails
<1>6. ASSUME NEW chain \in Chain, SelectChain(chain) PROVE UNCHANGED storeVars
  BY <1>6 DEF SelectChain
<1>7. ASSUME Connect \/ SessionIframeCreated \/ Disconnect PROVE UNCHANGED storeVars
  BY <1>7 DEF Connect, SessionIframeCreated, Disconnect, WalletCall
<1>8. ASSUME NEW made \in calls, CallEnds(made) \/ CallFails(made) PROVE UNCHANGED storeVars
  BY <1>8 DEF CallEnds, CallFails
<1>9. ASSUME \/ SessionDelete \/ WagmiChanges \/ ShowConnectionDialog
             \/ HideConnectionDialog \/ UNCHANGED sessionVars
      PROVE  UNCHANGED storeVars
  BY <1>9 DEF SessionDelete, WagmiChanges, ShowConnectionDialog, HideConnectionDialog, sessionVars
<1> QED
  BY <1>1, <1>2, <1>3, <1>4, <1>5, <1>6, <1>7, <1>8, <1>9 DEF SessionNext

\* Once its effects have run, the application is shown only over a loaded store of
\* its own, however renders, refreshes and the wallet interleave.
THEOREM ShownIsLoaded == SessionSpec => []ShownStoreIsLoaded
<1>1. WalletInv => WalletTypes
  BY DEF WalletInv
<1>2. StoreInv => ShownStoreIsLoaded
  BY DEF StoreInv
<1> QED
  BY <1>1, <1>2, InitWallet, NextWallet, InitStore, NextStore, PTL DEF SessionSpec

\* Every variable keeps its type, the records the page and the stores are included.
THEOREM SessionTypes == SessionSpec => []SessionTypeOK
<1>1. WalletInv => WalletTypes
  BY DEF WalletInv
<1>2. StoreInv => SessionTypeOK
  BY DEF StoreInv
<1> QED
  BY <1>1, <1>2, InitWallet, NextWallet, InitStore, NextStore, PTL DEF SessionSpec

-------------------------------------------------------------------------------
(* The providers.                                                           *)

Provider == {Base} \cup Socket
SocketState == {"none", "connecting", "open", "closing"}
Timer == {"none", "pending", "fired"}
WebSocket == [provider : Provider, sock : [Socket -> SocketState],
              onClose : [Socket -> BOOLEAN], regs : [Provider -> 0 .. 2],
              timerId : Timer, orphans : Nat]
User == [wanted : BOOLEAN, raced : Nat, opens : Nat, drops : Nat]

\* A WebSocket that is there has its handler, the provider's is there, and one
\* that has been told to close has lost its handler.
Handled(w) ==
  /\ w.provider # Base => w.provider \in Alive(w)
  /\ \A n \in Alive(w) : w.onClose[n]
  /\ \A n \in Socket : w.sock[n] = "closing" => ~w.onClose[n]

SocketInv == ws \in WebSocket /\ user \in User /\ Handled(ws) /\ ClosedIsClosed

CallPc == {"idle", "sent", "answered", "rejected", "lost"}
CallType == [pc : CallPc, tag : Nat, start : Nat, via : Provider, at : Int]
ReadType == [pc : {"idle", "waiting"}, tag : Nat, answer : Int]

BatchTypes ==
  /\ call \in [Calls -> CallType]
  /\ batched \in [tag : Nat, calls : Seq(Calls)]
  /\ timer \in {"none", "running", "due"}
  /\ timer # "none" => batched.calls # <<>>
  /\ flying \in [Calls -> Seq(Calls)]
  /\ read \in [Calls -> ReadType]

\* What a call has been answered is from its own block.
CallsAnswered ==
  \A c \in Calls :
    /\ call[c].pc \in {"idle", "sent", "rejected"} => call[c].at = 0
    /\ call[c].pc = "answered" /\ call[c].tag # 0 => call[c].at = call[c].tag

\* A caller waits in the batch, or for one call under way, that asks for the
\* block the caller has asked for, and in no two places.
WaitsInOnePlace ==
  /\ \A c \in Calls : call[c].pc = "idle" => flying[c] = <<>>
  /\ \A c \in Calls : \A k \in ToSet(flying[c]) :
       read[k].pc = "waiting" /\ read[k].tag = call[c].tag
  /\ \A k \in ToSet(batched.calls) : read[k].pc = "waiting" /\ read[k].tag = batched.tag
  /\ \A c, d \in Calls : c # d => ToSet(flying[c]) \cap ToSet(flying[d]) = {}
  /\ \A c \in Calls : ToSet(flying[c]) \cap ToSet(batched.calls) = {}

BatchInv == BatchTypes /\ CallsAnswered /\ WaitsInOnePlace /\ AnswersItsBlock

(***************************************************************************)
(* The WebSocket.                                                          *)
(***************************************************************************)
\* v differs from w in registrations at most.
SameSockets(v, w) ==
  /\ v \in WebSocket
  /\ v.provider = w.provider /\ v.sock = w.sock /\ v.onClose = w.onClose
  /\ v.timerId = w.timerId /\ v.orphans = w.orphans

LEMMA SocketConstants == Socket \subseteq Nat /\ Base \notin Socket
BY ProviderConstants DEF Socket, Base

LEMMA Registrations ==
  ASSUME NEW w \in WebSocket, NEW p \in Provider, NEW n \in 0 .. 2,
         NEW v, v = [w EXCEPT !.regs[p] = n]
  PROVE  SameSockets(v, w)
<1> DEFINE r == [w.regs EXCEPT ![p] = n]
<1>1. r \in [Provider -> 0 .. 2]
  BY DEF WebSocket
<1>2. v = [w EXCEPT !.regs = r]
  OBVIOUS
<1> HIDE DEF r
<1> QED
  BY <1>1, <1>2 DEF SameSockets, WebSocket

LEMMA Starts ==
  ASSUME NEW w \in WebSocket, NEW v, v = _startBlockEvents(w)
  PROVE  SameSockets(v, w)
<1> DEFINE n == On(w.regs[w.provider])
<1>1. w.provider \in Provider /\ w.regs[w.provider] \in 0 .. 2
  BY DEF WebSocket
<1>2. n \in 0 .. 2
  BY <1>1 DEF On, Min2
<1>3. v = [w EXCEPT !.regs[w.provider] = n]
  BY DEF _startBlockEvents
<1> HIDE DEF n
<1> QED
  BY <1>1, <1>2, <1>3, Registrations

LEMMA Stops ==
  ASSUME NEW w \in WebSocket, NEW v \in _stopBlockEvents(w)
  PROVE  SameSockets(v, w)
<1>1. w.provider \in Provider
  BY DEF WebSocket
<1>2. PICK n \in Off(w.regs[w.provider]) : v = [w EXCEPT !.regs[w.provider] = n]
  BY DEF _stopBlockEvents
<1>3. n \in 0 .. 2
  BY DEF Off
<1> QED
  BY <1>1, <1>2, <1>3, Registrations

\* The events move, nothing else does.
LEMMA SwitchoverMoves ==
  ASSUME NEW w \in WebSocket, NEW v \in _switchover(w)
  PROVE  SameSockets(v, w)
<1>1. CASE v = w
  BY <1>1 DEF SameSockets
<1>2. CASE v = _startBlockEvents(w)
  BY <1>2, Starts
<1>3. CASE \E n \in Off(w.regs[Base]) : v = _startBlockEvents([w EXCEPT !.regs[Base] = n])
  <2>1. PICK n \in Off(w.regs[Base]) : v = _startBlockEvents([w EXCEPT !.regs[Base] = n])
    BY <1>3
  <2> DEFINE u == [w EXCEPT !.regs[Base] = n]
  <2>2. n \in 0 .. 2 /\ Base \in Provider
    BY DEF Off, Provider
  <2>3. SameSockets(u, w)
    BY <2>2, Registrations
  <2>4. SameSockets(v, u)
    BY <2>1, <2>3, Starts DEF SameSockets
  <2> HIDE DEF u
  <2> QED
    BY <2>3, <2>4 DEF SameSockets
<1> QED
  BY <1>1, <1>2, <1>3 DEF _switchover

\* A new WebSocket is the provider and has its handler; no timer is touched.
LEMMA Opens ==
  ASSUME NEW w \in WebSocket, FreeSockets(w) # {}, NEW v \in openWebSocket(w)
  PROVE  /\ v \in WebSocket /\ v.timerId = w.timerId /\ v.orphans = w.orphans
         /\ \E n \in FreeSockets(w) :
              /\ v.provider = n
              /\ v.sock = [w.sock EXCEPT ![n] = "connecting"]
              /\ v.onClose = [w.onClose EXCEPT ![n] = TRUE]
<1> DEFINE n == CHOOSE m \in FreeSockets(w) : TRUE
           a == [w EXCEPT !.provider = n]
           b == [a EXCEPT !.sock = [w.sock EXCEPT ![n] = "connecting"]]
           c == [b EXCEPT !.onClose = [w.onClose EXCEPT ![n] = TRUE]]
           d == [c EXCEPT !.regs = [w.regs EXCEPT ![n] = 0]]
<1>1. n \in FreeSockets(w) /\ n \in Socket
  BY DEF FreeSockets
<1>2. v \in _switchover(d)
  <2>1. d = [w EXCEPT !.provider = n, !.sock[n] = "connecting", !.onClose[n] = TRUE,
                      !.regs[n] = 0]
    BY DEF WebSocket
  <2> QED
    BY <2>1 DEF openWebSocket
<1> HIDE DEF n
<1>3. n \in Provider /\ "connecting" \in SocketState /\ TRUE \in BOOLEAN /\ 0 \in 0 .. 2
  BY <1>1 DEF Provider, SocketState
<1>4. /\ [w.sock EXCEPT ![n] = "connecting"] \in [Socket -> SocketState]
      /\ [w.onClose EXCEPT ![n] = TRUE] \in [Socket -> BOOLEAN]
      /\ [w.regs EXCEPT ![n] = 0] \in [Provider -> 0 .. 2]
  BY <1>3 DEF WebSocket
<1>5. a \in WebSocket /\ a.provider = n /\ a.timerId = w.timerId /\ a.orphans = w.orphans
  BY <1>3 DEF WebSocket
<1> HIDE DEF a
<1>6. /\ b \in WebSocket /\ b.provider = n /\ b.timerId = w.timerId /\ b.orphans = w.orphans
      /\ b.sock = [w.sock EXCEPT ![n] = "connecting"]
  BY <1>4, <1>5 DEF WebSocket
<1> HIDE DEF b
<1>7. /\ c \in WebSocket /\ c.provider = n /\ c.timerId = w.timerId /\ c.orphans = w.orphans
      /\ c.sock = b.sock /\ c.onClose = [w.onClose EXCEPT ![n] = TRUE]
  BY <1>4, <1>6 DEF WebSocket
<1> HIDE DEF c
<1>8. /\ d \in WebSocket /\ d.provider = n /\ d.timerId = w.timerId /\ d.orphans = w.orphans
      /\ d.sock = c.sock /\ d.onClose = c.onClose
  BY <1>4, <1>7 DEF WebSocket
<1> HIDE DEF d
<1>9. SameSockets(v, d)
  BY <1>2, <1>8, SwitchoverMoves
<1>10. /\ v \in WebSocket /\ v.timerId = w.timerId /\ v.orphans = w.orphans /\ v.provider = n
       /\ v.sock = [w.sock EXCEPT ![n] = "connecting"]
       /\ v.onClose = [w.onClose EXCEPT ![n] = TRUE]
  BY <1>6, <1>7, <1>8, <1>9 DEF SameSockets
<1> QED
  BY <1>1, <1>10

\* closeWebSocket() without a WebSocket does nothing; with one, it takes away its
\* handler and clears the timer.
LEMMA Closes ==
  ASSUME NEW w \in WebSocket, NEW v \in closeWebSocket(w)
  PROVE  /\ v \in WebSocket /\ v.provider = Base /\ v.orphans = w.orphans
         /\ w.provider = Base => v = w
         /\ w.provider # Base =>
              /\ v.timerId = "none"
              /\ v.sock = [w.sock EXCEPT ![w.provider] = Closing(w.sock[w.provider])]
              /\ v.onClose = [w.onClose EXCEPT ![w.provider] = FALSE]
<1>1. CASE w.provider = Base
  BY <1>1 DEF closeWebSocket
<1>2. CASE w.provider # Base
  <2> DEFINE p == w.provider
             a == [w EXCEPT !.onClose = [w.onClose EXCEPT ![p] = FALSE]]
             b == [a EXCEPT !.sock = [w.sock EXCEPT ![p] = Closing(w.sock[p])]]
             c == [b EXCEPT !.provider = Base]
  <2>1. PICK u \in _switchover(c) : v = [u EXCEPT !.timerId = "none"]
    <3>1. c = [w EXCEPT !.onClose[p] = FALSE, !.sock[p] = Closing(@), !.provider = Base]
      BY DEF WebSocket
    <3> QED
      BY <1>2, <3>1 DEF closeWebSocket
  <2>2. p \in Socket /\ Base \in Provider
    BY <1>2 DEF WebSocket, Provider
  <2>3. Closing(w.sock[p]) \in SocketState
    BY <2>2 DEF Closing, SocketState, WebSocket
  <2>4. /\ [w.onClose EXCEPT ![p] = FALSE] \in [Socket -> BOOLEAN]
        /\ [w.sock EXCEPT ![p] = Closing(w.sock[p])] \in [Socket -> SocketState]
    BY <2>2, <2>3 DEF WebSocket
  <2>5. /\ a \in WebSocket /\ a.orphans = w.orphans
        /\ a.onClose = [w.onClose EXCEPT ![p] = FALSE]
    BY <2>4 DEF WebSocket
  <2> HIDE DEF a
  <2>6. /\ b \in WebSocket /\ b.orphans = a.orphans /\ b.onClose = a.onClose
        /\ b.sock = [w.sock EXCEPT ![p] = Closing(w.sock[p])]
    BY <2>4, <2>5 DEF WebSocket
  <2> HIDE DEF b
  <2>7. /\ c \in WebSocket /\ c.orphans = b.orphans /\ c.onClose = b.onClose /\ c.sock = b.sock
        /\ c.provider = Base
    BY <2>2, <2>6 DEF WebSocket
  <2> HIDE DEF c
  <2>8. SameSockets(u, c)
    BY <2>7, SwitchoverMoves
  <2>9. /\ v \in WebSocket /\ v.orphans = u.orphans /\ v.onClose = u.onClose /\ v.sock = u.sock
        /\ v.provider = u.provider /\ v.timerId = "none"
    BY <2>1, <2>8 DEF WebSocket, SameSockets, Timer
  <2> QED
    BY <1>2, <2>5, <2>6, <2>7, <2>8, <2>9 DEF SameSockets
<1> QED
  BY <1>1, <1>2

\* A lost WebSocket is replaced by a timer; the provider's, if that is another
\* one, is closed too, and the timer there was is cleared with it or loses its id.
LEMMA Loses ==
  ASSUME NEW w \in WebSocket, NEW v \in _onWebSocketClose(w)
  PROVE  /\ v \in WebSocket /\ v.provider = Base /\ Coming(v) <= Coming(w) + 1
         /\ w.provider = Base => v.sock = w.sock /\ v.onClose = w.onClose
         /\ w.provider # Base =>
              /\ v.sock = [w.sock EXCEPT ![w.provider] = Closing(w.sock[w.provider])]
              /\ v.onClose = [w.onClose EXCEPT ![w.provider] = FALSE]
<1>1. PICK u \in closeWebSocket(w) :
        v = [u EXCEPT !.orphans = IF u.timerId = "pending" THEN @ + 1 ELSE @,
                      !.timerId = "pending"]
  BY DEF _onWebSocketClose
<1>2. /\ u \in WebSocket /\ u.provider = Base /\ u.orphans = w.orphans
      /\ w.provider = Base => u = w
      /\ w.provider # Base =>
           /\ u.timerId = "none"
           /\ u.sock = [w.sock EXCEPT ![w.provider] = Closing(w.sock[w.provider])]
           /\ u.onClose = [w.onClose EXCEPT ![w.provider] = FALSE]
  BY Closes
<1> DEFINE m == IF u.timerId = "pending" THEN u.orphans + 1 ELSE u.orphans
           x == [u EXCEPT !.orphans = m]
<1>3. m \in Nat
  BY <1>2 DEF WebSocket
<1>4. v = [x EXCEPT !.timerId = "pending"]
  BY <1>1, <1>2 DEF WebSocket
<1> HIDE DEF m
<1>5. x \in WebSocket /\ x.orphans = m /\ x.provider = Base /\ x.sock = u.sock /\ x.onClose = u.onClose
  BY <1>2, <1>3 DEF WebSocket
<1> HIDE DEF x
<1>6. /\ v \in WebSocket /\ v.orphans = m /\ v.timerId = "pending" /\ v.provider = Base
      /\ v.sock = u.sock /\ v.onClose = u.onClose
  BY <1>4, <1>5 DEF WebSocket, Timer
<1>7. Coming(v) <= Coming(w) + 1
  <2>1. CASE w.provider = Base
    BY <1>2, <1>3, <1>6, <2>1 DEF Coming, m, WebSocket
  <2>2. CASE w.provider # Base
    BY <1>2, <1>3, <1>6, <2>2 DEF Coming, m, WebSocket
  <2> QED
    BY <2>1, <2>2
<1> QED
  BY <1>2, <1>6, <1>7

\* The WebSockets that are there are finitely many.
LEMMA AliveCounted ==
  ASSUME NEW w
  PROVE  IsFiniteSet(Alive(w)) /\ Cardinality(Alive(w)) \in Nat
<1>1. IsFiniteSet(Socket)
  BY ProviderConstants, FS_Interval DEF Socket
<1>2. Alive(w) \subseteq Socket
  BY DEF Alive
<1> QED
  BY <1>1, <1>2, FS_Subset, FS_CardinalityType

LEMMA OneMore ==
  ASSUME NEW v, NEW w, NEW n, n \notin Alive(w), Alive(v) = Alive(w) \cup {n}
  PROVE  Cardinality(Alive(v)) = Cardinality(Alive(w)) + 1
BY AliveCounted, FS_AddElement

LEMMA OneLess ==
  ASSUME NEW v, NEW w, NEW n, Alive(v) = Alive(w) \ {n}
  PROVE  /\ Cardinality(Alive(v)) <= Cardinality(Alive(w))
         /\ n \in Alive(w) => Cardinality(Alive(v)) = Cardinality(Alive(w)) - 1
<1>1. IsFiniteSet(Alive(w)) /\ Cardinality(Alive(w)) \in Nat
  BY AliveCounted
<1>2. Cardinality(Alive(v)) = IF n \in Alive(w) THEN Cardinality(Alive(w)) - 1
                                                ELSE Cardinality(Alive(w))
  BY <1>1, FS_RemoveElement
<1> QED
  BY <1>1, <1>2

\* A new WebSocket is one more, and has its handler.
LEMMA OpensOne ==
  ASSUME NEW w \in WebSocket, Handled(w), FreeSockets(w) # {}, NEW v \in openWebSocket(w)
  PROVE  /\ v \in WebSocket /\ Handled(v) /\ Coming(v) = Coming(w)
         /\ Cardinality(Alive(v)) = Cardinality(Alive(w)) + 1
<1>1. /\ v \in WebSocket /\ v.timerId = w.timerId /\ v.orphans = w.orphans
      /\ \E n \in FreeSockets(w) :
              /\ v.provider = n
              /\ v.sock = [w.sock EXCEPT ![n] = "connecting"]
              /\ v.onClose = [w.onClose EXCEPT ![n] = TRUE]
  BY Opens
<1>2. PICK n \in FreeSockets(w) :
              /\ v.provider = n
              /\ v.sock = [w.sock EXCEPT ![n] = "connecting"]
              /\ v.onClose = [w.onClose EXCEPT ![n] = TRUE]
  BY <1>1
<1>3. n \in Socket /\ w.sock[n] = "none"
  BY DEF FreeSockets
<1>4. /\ \A m \in Socket : v.sock[m] = IF m = n THEN "connecting" ELSE w.sock[m]
      /\ \A m \in Socket : v.onClose[m] = IF m = n THEN TRUE ELSE w.onClose[m]
  BY <1>2 DEF WebSocket
<1>5. n \notin Alive(w) /\ Alive(v) = Alive(w) \cup {n}
  BY <1>3, <1>4 DEF Alive
<1>6. Handled(v)
  <2>1. v.provider \in Alive(v)
    BY <1>2, <1>5
  <2>2. \A m \in Alive(v) : v.onClose[m]
    BY <1>3, <1>4, <1>5 DEF Handled, Alive
  <2>3. \A m \in Socket : v.sock[m] = "closing" => ~v.onClose[m]
    BY <1>4 DEF Handled
  <2> QED
    BY <2>1, <2>2, <2>3 DEF Handled
<1>7. Coming(v) = Coming(w)
  BY <1>1 DEF Coming
<1> QED
  BY <1>1, <1>5, <1>6, <1>7, OneMore

\* The WebSocket that is closed is no longer there, and has lost its handler; w
\* may be a state in which it went down already.
LEMMA ClosesOne ==
  ASSUME NEW w \in WebSocket, NEW v \in WebSocket, w.provider # Base, v.provider = Base,
         v.sock = [w.sock EXCEPT ![w.provider] = Closing(w.sock[w.provider])],
         v.onClose = [w.onClose EXCEPT ![w.provider] = FALSE],
         \A n \in Alive(w) : w.onClose[n],
         \A n \in Socket : w.sock[n] = "closing" => ~w.onClose[n]
  PROVE  Handled(v) /\ Alive(v) = Alive(w) \ {w.provider}
<1> DEFINE p == w.provider
<1>1. p \in Socket
  BY DEF WebSocket, Provider
<1>2. /\ \A m \in Socket : m # p => v.sock[m] = w.sock[m] /\ v.onClose[m] = w.onClose[m]
      /\ v.sock[p] \in {"none", "closing"} /\ v.onClose[p] = FALSE
  BY <1>1 DEF WebSocket, Closing
<1>3. Alive(v) = Alive(w) \ {p}
  BY <1>2 DEF Alive
<1>4. \A n \in Alive(v) : v.onClose[n]
  BY <1>2, <1>3 DEF Alive
<1>5. \A n \in Socket : v.sock[n] = "closing" => ~v.onClose[n]
  BY <1>2
<1> QED
  BY <1>3, <1>4, <1>5 DEF Handled

LEMMA InitSockets == Init => SocketInv
<1> SUFFICES ASSUME Init PROVE SocketInv
  OBVIOUS
<1> USE DEF Init
<1>1. user \in User /\ user.wanted = FALSE /\ user.raced = 0
  <2>1. PICK u \in Uses :
          user = [wanted |-> FALSE, raced |-> 0, opens |-> u.opens, drops |-> 0]
    OBVIOUS
  <2>2. u.opens \in Nat
    BY ProviderConstants
  <2> QED
    BY <2>1, <2>2 DEF User
<1>2. /\ [n \in Socket |-> "none"] \in [Socket -> SocketState]
      /\ [n \in Socket |-> FALSE] \in [Socket -> BOOLEAN]
      /\ [p \in {Base} \cup Socket |-> 0] \in [Provider -> 0 .. 2]
      /\ Base \in Provider /\ "none" \in Timer
  BY DEF SocketState, Provider, Timer
<1>3. /\ ws \in WebSocket /\ ws.provider = Base /\ ws.orphans = 0 /\ ws.timerId = "none"
      /\ \A n \in Socket : ws.sock[n] = "none"
  BY <1>2 DEF WebSocket
<1> HIDE DEF Init
<1>4. Alive(ws) = {} /\ Handled(ws)
  BY <1>3 DEF Alive, Handled
<1>5. Cardinality(Alive(ws)) = 0
  BY <1>4, FS_EmptySet, Zenon
<1>6. Coming(ws) = 0
  BY <1>3 DEF Coming
<1> QED
  BY <1>1, <1>3, <1>4, <1>5, <1>6 DEF SocketInv, ClosedIsClosed

\* A listener that comes or goes touches registrations only.
LEMMA ListenersOnly ==
  ASSUME SocketInv,
         NEW k, _addBlockListener(k) \/ _removeBlockListener(k) \/ UNCHANGED ws
  PROVE  SameSockets(ws', ws)
<1>1. ws \in WebSocket
  BY DEF SocketInv
<1>2. ws' = ws \/ ws' = _startBlockEvents(ws) \/ ws' \in _stopBlockEvents(ws)
  BY DEF _addBlockListener, _removeBlockListener
<1> QED
  BY <1>1, <1>2, Starts, Stops DEF SameSockets

LEMMA SameSocketsKeep ==
  ASSUME SocketInv, SameSockets(ws', ws), user' = user
  PROVE  SocketInv'
<1>1. Alive(ws') = Alive(ws) /\ Coming(ws') = Coming(ws)
  BY DEF SameSockets, Alive, Coming
<1> QED
  BY <1>1 DEF SocketInv, SameSockets, Handled, ClosedIsClosed

\* It connects: it was there before.
LEMMA ConnectedSockets ==
  ASSUME SocketInv, NEW n \in Socket, Connected(n)
  PROVE  SocketInv'
<1> DEFINE f == [ws.sock EXCEPT ![n] = "open"]
<1>1. f \in [Socket -> SocketState] /\ ws \in WebSocket
  BY DEF SocketInv, WebSocket, SocketState
<1>2. ws' = [ws EXCEPT !.sock = f] /\ user' = user /\ ws.sock[n] = "connecting"
  BY DEF Connected
<1>3. \A m \in Socket : f[m] = IF m = n THEN "open" ELSE ws.sock[m]
  BY <1>1 DEF WebSocket
<1> HIDE DEF f
<1>4. /\ ws' \in WebSocket /\ ws'.sock = f /\ ws'.provider = ws.provider
      /\ ws'.onClose = ws.onClose /\ ws'.timerId = ws.timerId /\ ws'.orphans = ws.orphans
  BY <1>1, <1>2 DEF WebSocket
<1>5. Alive(ws') = Alive(ws) /\ Coming(ws') = Coming(ws)
  BY <1>2, <1>3, <1>4 DEF Alive, Coming
<1>6. Handled(ws')
  BY <1>3, <1>4, <1>5 DEF Handled, SocketInv
<1> QED
  BY <1>2, <1>4, <1>5, <1>6 DEF SocketInv, ClosedIsClosed

LEMMA FetchedOnly ==
  ASSUME SocketInv, NEW f, NEW found, NEW v, Fetched(f, found, v)
  PROVE  SameSockets(ws', ws)
<1>1. _addBlockListener(f.key) \/ UNCHANGED ws
  BY DEF Fetched, WaitGoesOn, ListenerGoesOn
<1> QED
  BY <1>1, ListenersOnly

LEMMA UserOpensSockets ==
  ASSUME SocketInv, UserOpens
  PROVE  SocketInv'
<1> USE DEF SocketInv
<1>1. /\ ws' \in WebSocket /\ Handled(ws') /\ Coming(ws') = Coming(ws)
      /\ Cardinality(Alive(ws')) = Cardinality(Alive(ws)) + 1
  BY OpensOne DEF UserOpens
<1>2. user' \in User /\ user'.wanted = TRUE /\ user'.raced = user.raced /\ ~user.wanted
  <2> DEFINE u == [user EXCEPT !.wanted = TRUE]
  <2>1. u \in User /\ u.wanted = TRUE /\ u.raced = user.raced /\ u.opens = user.opens
    BY DEF User
  <2>2. user' = [u EXCEPT !.opens = u.opens - 1] /\ ~user.wanted /\ user.opens > 0
    BY <2>1 DEF UserOpens, User
  <2> HIDE DEF u
  <2>3. u.opens - 1 \in Nat
    BY <2>1, <2>2 DEF User
  <2> QED
    BY <2>1, <2>2, <2>3 DEF User
<1>3. Coming(ws) \in Nat /\ Cardinality(Alive(ws)) \in Nat /\ user.raced \in Nat
  BY AliveCounted DEF Coming, WebSocket, User
<1> QED
  BY <1>1, <1>2, <1>3 DEF ClosedIsClosed

LEMMA UserClosesSockets ==
  ASSUME SocketInv, UserCloses
  PROVE  SocketInv'
<1> USE DEF SocketInv
<1>1. /\ ws' \in WebSocket /\ ws'.provider = Base /\ ws'.orphans = ws.orphans
      /\ ws.provider = Base => ws' = ws
      /\ ws.provider # Base =>
           /\ ws'.timerId = "none"
           /\ ws'.sock = [ws.sock EXCEPT ![ws.provider] = Closing(ws.sock[ws.provider])]
           /\ ws'.onClose = [ws.onClose EXCEPT ![ws.provider] = FALSE]
  BY Closes DEF UserCloses
<1> DEFINE r == IF ws.provider = Base THEN user.raced + 1 ELSE user.raced
<1>2. user' \in User /\ user'.wanted = FALSE /\ user'.raced = r /\ user.wanted = TRUE
  <2> DEFINE u == [user EXCEPT !.wanted = FALSE]
  <2>1. u \in User /\ u.wanted = FALSE /\ u.raced = user.raced
    BY DEF User
  <2>2. user' = [u EXCEPT !.raced = r] /\ user.wanted = TRUE
    BY DEF UserCloses, User
  <2>3. user.raced \in Nat
    BY DEF User
  <2>4. r \in Nat
    BY <2>3
  <2> HIDE DEF u, r
  <2> QED
    BY <2>1, <2>2, <2>4 DEF User
<1>3. Coming(ws) \in Nat /\ Cardinality(Alive(ws)) \in Nat /\ user.raced \in Nat
  BY AliveCounted DEF Coming, WebSocket, User
<1>4. CASE ws.provider = Base
  BY <1>1, <1>2, <1>3, <1>4 DEF ClosedIsClosed
<1>5. CASE ws.provider # Base
  <2>1. Handled(ws') /\ Alive(ws') = Alive(ws) \ {ws.provider}
    BY <1>1, <1>5, ClosesOne DEF Handled
  <2>2. Cardinality(Alive(ws')) = Cardinality(Alive(ws)) - 1
    BY <1>5, <2>1, OneLess DEF Handled
  <2>3. Coming(ws') <= Coming(ws)
    BY <1>1, <1>5 DEF Coming, WebSocket
  <2>4. Coming(ws') \in Nat
    BY <1>1 DEF Coming, WebSocket
  <2>5. Cardinality(Alive(ws)) + Coming(ws) <= 1 + user.raced
    BY <1>2 DEF ClosedIsClosed
  <2>6. Cardinality(Alive(ws')) + Coming(ws') <= 0 + user'.raced
    BY <1>2, <1>3, <1>5, <2>2, <2>3, <2>4, <2>5
  <2> QED
    BY <1>1, <1>2, <2>1, <2>6 DEF ClosedIsClosed
<1> QED
  BY <1>4, <1>5

\* The WebSocket that a timer opens has been counted with the timer.
LEMMA ReconnectSockets ==
  ASSUME SocketInv, Reconnect
  PROVE  SocketInv'
<1> USE DEF SocketInv
<1>1. user' = user /\ FreeSockets(ws) # {}
  BY DEF Reconnect
<1>2. PICK w \in WebSocket : /\ w.sock = ws.sock /\ w.provider = ws.provider
                             /\ w.onClose = ws.onClose /\ Coming(w) = Coming(ws) - 1
                             /\ ws' \in openWebSocket(w)
  <2>1. CASE ws.timerId = "pending" /\ ws' \in openWebSocket([ws EXCEPT !.timerId = "fired"])
    <3> DEFINE w == [ws EXCEPT !.timerId = "fired"]
    <3>1. /\ w \in WebSocket /\ w.timerId = "fired" /\ w.orphans = ws.orphans
          /\ w.sock = ws.sock /\ w.provider = ws.provider /\ w.onClose = ws.onClose
      BY DEF WebSocket, Timer
    <3>2. ws' \in openWebSocket(w) /\ ws.orphans \in Nat
      BY <2>1 DEF WebSocket
    <3> HIDE DEF w
    <3>3. Coming(w) = Coming(ws) - 1
      BY <2>1, <3>1, <3>2 DEF Coming
    <3> QED
      BY <3>1, <3>2, <3>3
  <2>2. CASE ws.orphans > 0 /\ ws' \in openWebSocket([ws EXCEPT !.orphans = @ - 1])
    <3> DEFINE w == [ws EXCEPT !.orphans = ws.orphans - 1]
    <3>1. /\ w \in WebSocket /\ w.timerId = ws.timerId /\ w.orphans = ws.orphans - 1
          /\ w.sock = ws.sock /\ w.provider = ws.provider /\ w.onClose = ws.onClose
      BY <2>2 DEF WebSocket
    <3>2. ws' \in openWebSocket(w) /\ ws.orphans \in Nat
      BY <2>2 DEF WebSocket
    <3> HIDE DEF w
    <3>3. Coming(w) = Coming(ws) - 1
      BY <2>2, <3>1, <3>2 DEF Coming
    <3> QED
      BY <3>1, <3>2, <3>3
  <2> QED
    BY <2>1, <2>2 DEF Reconnect
<1>3. Alive(w) = Alive(ws) /\ Handled(w) /\ FreeSockets(w) # {}
  BY <1>1, <1>2 DEF Alive, Handled, FreeSockets
<1>4. /\ ws' \in WebSocket /\ Handled(ws') /\ Coming(ws') = Coming(ws) - 1
      /\ Cardinality(Alive(ws')) = Cardinality(Alive(ws)) + 1
  BY <1>2, <1>3, OpensOne
<1>5. Coming(ws) \in Nat /\ Cardinality(Alive(ws)) \in Nat /\ user.raced \in Nat
  BY AliveCounted DEF Coming, WebSocket, User
<1> QED
  BY <1>1, <1>4, <1>5 DEF ClosedIsClosed

\* A WebSocket goes down: one that was told to close was not counted any more,
\* and one that is lost leaves its place to a timer.
LEMMA ClosedSockets ==
  ASSUME SocketInv, NEW n \in Socket, Closed(n), user' \in User,
         n \in Alive(ws) \/ ws.sock[n] = "closing",
         user'.wanted = user.wanted, user'.raced = user.raced
  PROVE  SocketInv'
<1> USE DEF SocketInv
<1> DEFINE a == [ws EXCEPT !.sock = [ws.sock EXCEPT ![n] = "none"]]
           w == [a EXCEPT !.regs = [ws.regs EXCEPT ![n] = 0]]
<1>1. ws' \in IF w.onClose[n] THEN _onWebSocketClose(w) ELSE {w}
  <2>1. w = [ws EXCEPT !.sock[n] = "none", !.regs[n] = 0]
    BY DEF WebSocket
  <2> QED
    BY <2>1 DEF Closed
<1>2. /\ [ws.sock EXCEPT ![n] = "none"] \in [Socket -> SocketState]
      /\ [ws.regs EXCEPT ![n] = 0] \in [Provider -> 0 .. 2]
  <2>1. ws.sock \in [Socket -> SocketState] /\ ws.regs \in [Provider -> 0 .. 2]
    BY DEF WebSocket
  <2>2. "none" \in SocketState /\ 0 \in 0 .. 2
    BY DEF SocketState
  <2> QED
    BY <2>1, <2>2
<1>3. /\ a \in WebSocket /\ a.provider = ws.provider /\ a.onClose = ws.onClose
      /\ a.timerId = ws.timerId /\ a.orphans = ws.orphans
      /\ a.sock = [ws.sock EXCEPT ![n] = "none"]
  BY <1>2 DEF WebSocket
<1> HIDE DEF a
<1>4. /\ w \in WebSocket /\ w.provider = ws.provider /\ w.onClose = ws.onClose
      /\ w.timerId = ws.timerId /\ w.orphans = ws.orphans
      /\ w.sock = [ws.sock EXCEPT ![n] = "none"]
  BY <1>2, <1>3 DEF WebSocket
<1> HIDE DEF w
<1>5. \A m \in Socket : w.sock[m] = IF m = n THEN "none" ELSE ws.sock[m]
  BY <1>4 DEF WebSocket
<1>6. Alive(w) = Alive(ws) \ {n} /\ Coming(w) = Coming(ws)
  BY <1>4, <1>5 DEF Alive, Coming
<1>7. /\ \A m \in Alive(w) : w.onClose[m]
      /\ \A m \in Socket : w.sock[m] = "closing" => ~w.onClose[m]
  BY <1>4, <1>5, <1>6 DEF Handled
<1>8. Coming(ws) \in Nat /\ Cardinality(Alive(ws)) \in Nat /\ user.raced \in Nat
  BY AliveCounted DEF Coming, WebSocket, User
<1>9. CASE ~ws.onClose[n]
  <2>1. ws' = w /\ n \notin Alive(ws)
    BY <1>1, <1>4, <1>9 DEF Handled
  <2>2. Alive(w) = Alive(ws) /\ Handled(w)
    BY <1>4, <1>6, <1>7, <2>1 DEF Handled
  <2> QED
    BY <1>4, <1>6, <2>1, <2>2 DEF ClosedIsClosed
<1>10. CASE ws.onClose[n]
  <2>1. n \in Alive(ws)
    BY <1>10 DEF Handled
  <2>2. Cardinality(Alive(w)) = Cardinality(Alive(ws)) - 1
    BY <1>6, <2>1, OneLess
  <2>3. /\ ws' \in WebSocket /\ ws'.provider = Base /\ Coming(ws') <= Coming(ws) + 1
        /\ w.provider = Base => ws'.sock = w.sock /\ ws'.onClose = w.onClose
        /\ w.provider # Base =>
             /\ ws'.sock = [w.sock EXCEPT ![w.provider] = Closing(w.sock[w.provider])]
             /\ ws'.onClose = [w.onClose EXCEPT ![w.provider] = FALSE]
    BY <1>1, <1>4, <1>6, <1>10, Loses
  <2>4. Handled(ws') /\ Cardinality(Alive(ws')) <= Cardinality(Alive(w))
    <3>1. CASE w.provider = Base
      <4>1. Alive(ws') = Alive(w)
        BY <2>3, <3>1 DEF Alive
      <4>2. Handled(ws')
        BY <1>7, <2>3, <3>1, <4>1 DEF Handled
      <4> QED
        BY <4>1, <4>2, AliveCounted
    <3>2. CASE w.provider # Base
      <4>1. Handled(ws') /\ Alive(ws') = Alive(w) \ {w.provider}
        BY <1>4, <1>7, <2>3, <3>2, ClosesOne
      <4> QED
        BY <4>1, OneLess
    <3> QED
      BY <3>1, <3>2
  <2>5. Coming(ws') \in Nat /\ Cardinality(Alive(ws')) \in Nat
    BY <2>3, AliveCounted DEF Coming, WebSocket
  <2> QED
    BY <1>8, <2>2, <2>3, <2>4, <2>5 DEF ClosedIsClosed
<1> QED
  BY <1>9, <1>10

\* What a step of the provider does: it leaves the sockets and the calls alone, it
\* is one of the user or of the timer, or a WebSocket goes down.
LEMMA ProviderSteps ==
  ASSUME SocketInv, ProviderNext
  PROVE  \/ SameSockets(ws', ws) /\ UNCHANGED <<user, call>>
         \/ (UserOpens \/ UserCloses \/ Reconnect) /\ UNCHANGED call
         \/ \E n \in Socket : Connected(n) /\ UNCHANGED call
         \/ \E n \in Socket : Closed(n) /\ (Dropped(n) \/ CloseEvent(n))
<1>1. ASSUME UNCHANGED <<ws, user, call>>
      PROVE  SameSockets(ws', ws) /\ UNCHANGED <<user, call>>
  BY <1>1 DEF SocketInv, SameSockets
<1> USE DEF clientVars
<1>2. CASE NewBlock \/ NodesSync \/ BlockRound
  BY <1>2, <1>1 DEF NewBlock, NodesSync, BlockRound
<1>3. CASE UserOpens \/ UserCloses \/ Reconnect
  BY <1>3 DEF UserOpens, UserCloses, Reconnect
<1>4. ASSUME NEW n \in Socket, Connected(n)
      PROVE  UNCHANGED call
  BY <1>4 DEF Connected
<1>5. ASSUME NEW n \in Socket, Dropped(n) \/ CloseEvent(n)
      PROVE  Closed(n)
  BY <1>5 DEF Dropped, CloseEvent
<1>6. ASSUME NEW p \in {Base} \cup Socket, NEW b \in NodeBlock, _onBlock(p, b)
      PROVE  SameSockets(ws', ws) /\ UNCHANGED <<user, call>>
  BY <1>6, <1>1 DEF _onBlock
<1>7. ASSUME NEW s \in Stores, OnBlock(s) \/ OffBlock(s)
      PROVE  SameSockets(ws', ws) /\ UNCHANGED <<user, call>>
  BY <1>7, ListenersOnly DEF OnBlock, OffBlock
<1>8. ASSUME NEW k \in TxListeners, OnceTransaction(k)
      PROVE  SameSockets(ws', ws) /\ UNCHANGED <<user, call>>
  BY <1>8, ListenersOnly DEF OnceTransaction
<1>9. ASSUME NEW d \in deferred, RunDeferred(d)
      PROVE  SameSockets(ws', ws) /\ UNCHANGED <<user, call>>
  BY <1>9, <1>1 DEF RunDeferred
<1>10. ASSUME NEW f \in fetches, ReceiptAnswered(f)
       PROVE  SameSockets(ws', ws) /\ UNCHANGED <<user, call>>
  <2>1. ws' = ws \/ \E found, v : Fetched(f, found, v)
    BY <1>10 DEF ReceiptAnswered
  <2>2. UNCHANGED <<user, call>>
    BY <1>10 DEF ReceiptAnswered
  <2> QED
    BY <2>1, <2>2, <1>1, FetchedOnly
<1>11. ASSUME NEW f \in fetches, BlockAnswered(f)
       PROVE  SameSockets(ws', ws) /\ UNCHANGED <<user, call>>
  <2>1. ws' = ws \/ Fetched(f, FALSE, 0)
    BY <1>11 DEF BlockAnswered
  <2>2. UNCHANGED <<user, call>>
    BY <1>11 DEF BlockAnswered
  <2> QED
    BY <2>1, <2>2, <1>1, FetchedOnly
<1>12. ASSUME NEW k \in Waits, WaitForTransaction(k)
       PROVE  SameSockets(ws', ws) /\ UNCHANGED <<user, call>>
  BY <1>12, <1>1 DEF WaitForTransaction
<1> QED
  BY <1>2, <1>3, <1>4, <1>5, <1>6, <1>7, <1>8, <1>9, <1>10, <1>11, <1>12 DEF ProviderNext

\* The steps of the batch, too, leave the WebSocket to the provider.
LEMMA NextSockets == SocketInv /\ [BatchedNext]_allVars => SocketInv'
<1> SUFFICES ASSUME SocketInv, [BatchedNext]_allVars PROVE SocketInv'
  OBVIOUS
<1>1. ASSUME UNCHANGED <<ws, user>> PROVE SocketInv'
  BY <1>1, SameSocketsKeep DEF SocketInv, SameSockets
<1>2. CASE ProviderNext
  <2>1. CASE SameSockets(ws', ws) /\ UNCHANGED <<user, call>>
    BY <2>1, SameSocketsKeep
  <2>2. CASE UserOpens \/ UserCloses \/ Reconnect
    BY <2>2, UserOpensSockets, UserClosesSockets, ReconnectSockets
  <2>3. ASSUME NEW n \in Socket, Closed(n), Dropped(n) \/ CloseEvent(n)
        PROVE  SocketInv'
    <3>1. user' \in User /\ user'.wanted = user.wanted /\ user'.raced = user.raced
      BY <2>3 DEF Dropped, CloseEvent, SocketInv, User
    <3>2. n \in Alive(ws) \/ ws.sock[n] = "closing"
      BY <2>3 DEF Dropped, CloseEvent, Alive
    <3> QED
      BY <2>3, <3>1, <3>2, ClosedSockets
  <2>4. ASSUME NEW n \in Socket, Connected(n)
        PROVE  SocketInv'
    BY <2>4, ConnectedSockets
  <2> QED
    BY <1>2, <2>1, <2>2, <2>3, <2>4, ProviderSteps
<1>3. CASE SetChainId \/ OthersJoin \/ TimerDue \/ UNCHANGED allVars
  BY <1>3, <1>1 DEF SetChainId, OthersJoin, TimerDue, allVars, vars
<1>4. ASSUME NEW k, NEW tag, NEW b, BatchedCall(k, tag, b)
      PROVE  SocketInv'
  BY <1>4, <1>1 DEF BatchedCall, SuperCall, Call, _enqueueCall, vars
<1>5. CASE _dispatchCalls
  BY <1>5, <1>1 DEF _dispatchCalls, Call
<1>6. ASSUME NEW c, SuperAnswered(c) \/ Settle(c)
      PROVE  SocketInv'
  BY <1>6, <1>1 DEF SuperAnswered, CallAnswered, Settle
<1> QED
  BY <1>2, <1>3, <1>4, <1>5, <1>6 DEF BatchedNext

\* For any number of sockets, of losses and of calls of openWebSocket(): at most
\* one WebSocket, open or about to be reopened, while the user wants one, and none
\* after closeWebSocket(), but for one more at most for each closeWebSocket() that
\* was called while a lost WebSocket waited to be reopened.
THEOREM StaysClosed == BatchedSpec => []ClosedIsClosed
<1>1. BatchedInit => SocketInv
  BY InitSockets DEF BatchedInit
<1>2. SocketInv => ClosedIsClosed
  BY DEF SocketInv
<1> QED
  BY <1>1, <1>2, NextSockets, PTL DEF BatchedSpec

(***************************************************************************)
(* The batch.                                                              *)
(***************************************************************************)
LEMMA ToSetEmpty == ToSet(<<>>) = {}
BY DEF ToSet

LEMMA ToSetOne == ASSUME NEW k PROVE ToSet(<<k>>) = {k}
BY DEF ToSet

LEMMA ToSetAppend ==
  ASSUME NEW S, NEW s \in Seq(S), NEW k \in S
  PROVE  ToSet(Append(s, k)) = ToSet(s) \cup {k}
<1> DEFINE t == Append(s, k)
<1>1. /\ t \in Seq(S) /\ Len(t) = Len(s) + 1 /\ Len(s) \in Nat
      /\ \A i \in 1 .. Len(s) : t[i] = s[i]
      /\ t[Len(s) + 1] = k
  BY AppendProperties, LenProperties
<1> HIDE DEF t
<1>2. DOMAIN t = 1 .. (Len(s) + 1) /\ DOMAIN s = 1 .. Len(s)
  BY <1>1, LenProperties
<1> QED
  BY <1>1, <1>2 DEF ToSet, t

LEMMA ToSetOf ==
  ASSUME NEW S, NEW s \in Seq(S)
  PROVE  ToSet(s) \subseteq S
BY DEF ToSet

LEMMA ViaType == SocketInv => Via \in Provider
BY DEF SocketInv, WebSocket, Via, Provider

LEMMA InitBatch == BatchedInit => BatchInv
<1> SUFFICES ASSUME BatchedInit PROVE BatchInv
  OBVIOUS
<1> USE DEF BatchedInit
<1>1. /\ call = [c \in Calls |-> NoCall] /\ batched = emptyBatch /\ timer = "none"
      /\ flying = [c \in Calls |-> <<>>] /\ read = [c \in Calls |-> NoRead]
  BY DEF Init
<1>2. Base \in Provider
  BY DEF Provider
<1>3. NoCall \in CallType /\ NoRead \in ReadType /\ <<>> \in Seq(Calls)
  BY <1>2 DEF NoCall, NoRead, CallType, CallPc, ReadType
<1>4. batched \in [tag : Nat, calls : Seq(Calls)] /\ batched.calls = <<>>
  BY <1>1 DEF emptyBatch
<1>5. BatchTypes
  BY <1>1, <1>3, <1>4 DEF BatchTypes
<1>6. CallsAnswered
  BY <1>1 DEF CallsAnswered, NoCall
<1>7. WaitsInOnePlace
  BY <1>1, <1>4, ToSetEmpty DEF WaitsInOnePlace
<1>8. AnswersItsBlock
  BY <1>1 DEF AnswersItsBlock, NoRead
<1> QED
  BY <1>5, <1>6, <1>7, <1>8 DEF BatchInv

\* A call that goes on, or goes down, keeps its block; who waits for it still does.
LEMMA CallsGoOn ==
  ASSUME BatchInv, UNCHANGED <<batched, timer, flying, read>>,
         call' \in [Calls -> CallType], CallsAnswered',
         \A c \in Calls : /\ call'[c].tag = call[c].tag
                          /\ call'[c].pc = "idle" => call[c].pc = "idle"
  PROVE  BatchInv'
<1>1. BatchTypes'
  BY DEF BatchInv, BatchTypes
<1>2. WaitsInOnePlace'
  BY DEF BatchInv, WaitsInOnePlace
<1>3. AnswersItsBlock'
  BY DEF BatchInv, AnswersItsBlock
<1> QED
  BY <1>1, <1>2, <1>3 DEF BatchInv

LEMMA ClosedCalls ==
  ASSUME BatchInv, NEW n \in Socket, Closed(n), UNCHANGED batchVars
  PROVE  BatchInv'
<1>1. call \in [Calls -> CallType]
  BY DEF BatchInv, BatchTypes
<1>2. call' = [c \in Calls |-> IF call[c].via = n THEN [call[c] EXCEPT !.pc = "lost"]
                               ELSE call[c]]
  BY <1>1 DEF Closed
<1>3. ASSUME NEW c \in Calls
      PROVE  /\ call'[c] \in CallType /\ call'[c].tag = call[c].tag
             /\ call'[c].pc = "lost" \/ call'[c] = call[c]
  <2>1. call[c] \in CallType
    BY <1>1
  <2>2. CASE call[c].via = n
    <3>1. call'[c] = [call[c] EXCEPT !.pc = "lost"]
      BY <1>2, <2>2
    <3>2. "lost" \in CallPc
      BY DEF CallPc
    <3> QED
      BY <2>1, <3>1, <3>2 DEF CallType
  <2>3. CASE call[c].via # n
    BY <1>2, <2>1, <2>3
  <2> QED
    BY <2>2, <2>3
<1>4. call' \in [Calls -> CallType]
  BY <1>2, <1>3
<1>5. CallsAnswered'
  BY <1>3 DEF BatchInv, CallsAnswered
<1>6. \A c \in Calls : /\ call'[c].tag = call[c].tag
                       /\ call'[c].pc = "idle" => call[c].pc = "idle"
  BY <1>3
<1>7. UNCHANGED <<batched, timer, flying, read>>
  BY DEF batchVars
<1> QED
  BY <1>4, <1>5, <1>6, <1>7, CallsGoOn

\* A node that has got the block answers from it, one that has not rejects the
\* call or is asked again.
LEMMA AnsweredCalls ==
  ASSUME BatchInv, SocketInv, NEW c \in Calls, CallAnswered(c), UNCHANGED batchVars
  PROVE  BatchInv'
<1> DEFINE old == call[c]
<1>1. call \in [Calls -> CallType] /\ old \in CallType
  BY DEF BatchInv, BatchTypes
<1>2. old.pc = "sent" /\ old.at = 0
  BY DEF CallAnswered, BatchInv, CallsAnswered
<1>3. PICK v \in NodeBlock :
        call' = [call EXCEPT ![c] =
          IF old.tag <= v
          THEN [old EXCEPT !.pc = "answered", !.at = IF old.tag = 0 THEN v ELSE old.tag]
          ELSE IF old.start # 0 /\ seenBlock = old.start THEN [old EXCEPT !.via = Via]
          ELSE [old EXCEPT !.pc = "rejected"]]
  BY DEF CallAnswered
<1>4. v \in Int
  BY DEF NodeBlock
<1> DEFINE new == call'[c]
<1>5. /\ new \in CallType /\ new.tag = old.tag /\ new.pc \in {"sent", "answered", "rejected"}
      /\ new.pc # "answered" => new.at = 0
      /\ new.pc = "answered" => (new.tag # 0 => new.at = new.tag)
  <2> HIDE DEF old
  <2>1. CASE old.tag <= v
    <3> DEFINE at == IF old.tag = 0 THEN v ELSE old.tag
               mid == [old EXCEPT !.pc = "answered"]
    <3>1. at \in Int
      BY <1>1, <1>4 DEF CallType
    <3>2. mid \in CallType /\ mid.tag = old.tag /\ mid.pc = "answered"
      BY <1>1 DEF CallType, CallPc
    <3>3. new = [mid EXCEPT !.at = at]
      BY <1>1, <1>3, <2>1
    <3> HIDE DEF mid
    <3>4. old.tag # 0 => at = old.tag
      OBVIOUS
    <3> HIDE DEF at
    <3>5. new \in CallType /\ new.tag = old.tag /\ new.pc = "answered" /\ new.at = at
      <4> HIDE DEF new
      <4> QED
        BY <3>1, <3>2, <3>3 DEF CallType
    <3> QED
      BY <3>4, <3>5
  <2>2. CASE ~(old.tag <= v) /\ old.start # 0 /\ seenBlock = old.start
    <3>1. new = [old EXCEPT !.via = Via]
      BY <1>1, <1>3, <2>2
    <3> HIDE DEF new
    <3> QED
      BY <1>1, <1>2, <3>1, ViaType DEF CallType, old
  <2>3. CASE ~(old.tag <= v) /\ ~(old.start # 0 /\ seenBlock = old.start)
    <3>1. new = [old EXCEPT !.pc = "rejected"]
      BY <1>1, <1>3, <2>3
    <3> HIDE DEF new
    <3> QED
      BY <1>1, <1>2, <3>1 DEF CallType, CallPc
  <2> QED
    BY <2>1, <2>2, <2>3
<1>6. call' \in [Calls -> CallType] /\ \A d \in Calls : d # c => call'[d] = call[d]
  BY <1>1, <1>3, <1>5
<1>7. CallsAnswered'
  BY <1>5, <1>6 DEF BatchInv, CallsAnswered
<1>8. \A d \in Calls : /\ call'[d].tag = call[d].tag
                       /\ call'[d].pc = "idle" => call[d].pc = "idle"
  BY <1>5, <1>6
<1>9. UNCHANGED <<batched, timer, flying, read>>
  BY DEF batchVars
<1> QED
  BY <1>6, <1>7, <1>8, <1>9, CallsGoOn

\* A request that is sent asks for its block and is nobody's yet.
LEMMA SentCalls ==
  ASSUME BatchInv, SocketInv, NEW c \in Calls, NEW tag \in Nat, Call(c, tag)
  PROVE  /\ call[c].pc = "idle" /\ flying[c] = <<>>
         /\ call' \in [Calls -> CallType]
         /\ call'[c].pc = "sent" /\ call'[c].tag = tag
         /\ \A d \in Calls : d # c => call'[d] = call[d]
         /\ CallsAnswered'
<1> DEFINE new == [pc |-> "sent", tag |-> tag, start |-> IF tag = seenBlock THEN tag ELSE 0,
                   via |-> Via, at |-> 0]
<1>1. call \in [Calls -> CallType]
  BY DEF BatchInv, BatchTypes
<1>2. call[c].pc = "idle" /\ call' = [call EXCEPT ![c] = new]
  BY DEF Call
<1>3. (IF tag = seenBlock THEN tag ELSE 0) \in Nat
  OBVIOUS
<1>4. new \in CallType /\ new.pc = "sent" /\ new.tag = tag /\ new.at = 0
  BY <1>3, ViaType DEF CallType, CallPc
<1> HIDE DEF new
<1>5. call' \in [Calls -> CallType] /\ call'[c] = new
      /\ \A d \in Calls : d # c => call'[d] = call[d]
  BY <1>1, <1>2, <1>4
<1>6. CallsAnswered'
  BY <1>4, <1>5 DEF BatchInv, CallsAnswered
<1> QED
  BY <1>2, <1>4, <1>5, <1>6 DEF BatchInv, WaitsInOnePlace

\* A caller that starts to wait waits nowhere yet.
LEMMA StartsToWait ==
  ASSUME BatchInv, NEW k \in Calls, read[k].pc = "idle", NEW tag \in Nat,
         read' = [read EXCEPT ![k] = [pc |-> "waiting", tag |-> tag, answer |-> 0]]
  PROVE  /\ read' \in [Calls -> ReadType]
         /\ read'[k].pc = "waiting" /\ read'[k].tag = tag
         /\ \A j \in Calls : j # k => read'[j] = read[j]
         /\ AnswersItsBlock'
         /\ k \notin ToSet(batched.calls)
         /\ \A c \in Calls : k \notin ToSet(flying[c])
<1> DEFINE new == [pc |-> "waiting", tag |-> tag, answer |-> 0]
<1>1. read \in [Calls -> ReadType]
  BY DEF BatchInv, BatchTypes
<1>2. new \in ReadType /\ new.pc = "waiting" /\ new.tag = tag /\ new.answer = 0
  BY DEF ReadType
<1> HIDE DEF new
<1>3. read' = [read EXCEPT ![k] = new]
  BY DEF new
<1>4. read' \in [Calls -> ReadType] /\ read'[k] = new
      /\ \A j \in Calls : j # k => read'[j] = read[j]
  BY <1>1, <1>2, <1>3
<1>5. AnswersItsBlock'
  BY <1>2, <1>4 DEF BatchInv, AnswersItsBlock
<1> QED
  BY <1>2, <1>4, <1>5 DEF BatchInv, WaitsInOnePlace

LEMMA SuperCallBatch ==
  ASSUME BatchInv, SocketInv, NEW k \in Calls, read[k].pc = "idle", NEW tag \in Nat,
         read' = [read EXCEPT ![k] = [pc |-> "waiting", tag |-> tag, answer |-> 0]],
         SuperCall(k, tag)
  PROVE  BatchInv'
<1>1. flying' = [flying EXCEPT ![k] = <<k>>] /\ UNCHANGED <<batched, timer>>
  BY DEF SuperCall
<1>2. flying \in [Calls -> Seq(Calls)] /\ batched.calls \in Seq(Calls)
  BY DEF BatchInv, BatchTypes
<1>3. <<k>> \in Seq(Calls)
  OBVIOUS
<1>4. /\ flying' \in [Calls -> Seq(Calls)] /\ flying'[k] = <<k>>
      /\ \A c \in Calls : c # k => flying'[c] = flying[c]
  BY <1>1, <1>2, <1>3
<1>5. ToSet(flying'[k]) = {k}
  BY <1>4, ToSetOne
<1>6. Call(k, tag)
  BY DEF SuperCall
<1>7. /\ call' \in [Calls -> CallType] /\ CallsAnswered'
      /\ call'[k].pc = "sent" /\ call'[k].tag = tag
      /\ \A d \in Calls : d # k => call'[d] = call[d]
  BY <1>6, SentCalls
<1>8. /\ read' \in [Calls -> ReadType] /\ AnswersItsBlock'
      /\ read'[k].pc = "waiting" /\ read'[k].tag = tag
      /\ \A j \in Calls : j # k => read'[j] = read[j]
      /\ k \notin ToSet(batched.calls) /\ \A c \in Calls : k \notin ToSet(flying[c])
  BY StartsToWait
<1>9. \A c \in Calls : ToSet(flying[c]) \subseteq Calls
  BY <1>2, ToSetOf
<1>10. ToSet(batched.calls) \subseteq Calls
  BY <1>2, ToSetOf
<1>11. BatchTypes'
  BY <1>1, <1>4, <1>7, <1>8 DEF BatchInv, BatchTypes
<1>12. WaitsInOnePlace'
  <2>1. ASSUME NEW c \in Calls, NEW j \in ToSet(flying'[c])
        PROVE  read'[j].pc = "waiting" /\ read'[j].tag = call'[c].tag
    <3>1. CASE c = k
      BY <2>1, <3>1, <1>5, <1>7, <1>8
    <3>2. CASE c # k
      <4>1. j \in ToSet(flying[c]) /\ call'[c] = call[c]
        BY <2>1, <3>2, <1>4, <1>7
      <4>2. read[j].pc = "waiting" /\ read[j].tag = call[c].tag
        BY <4>1 DEF BatchInv, WaitsInOnePlace
      <4>3. read'[j] = read[j]
        BY <4>1, <1>8, <1>9
      <4> QED
        BY <4>1, <4>2, <4>3
    <3> QED
      BY <3>1, <3>2
  <2>2. \A j \in ToSet(batched.calls) : read'[j].pc = "waiting" /\ read'[j].tag = batched.tag
    BY <1>8, <1>10 DEF BatchInv, WaitsInOnePlace
  <2>3. \A c \in Calls : call'[c].pc = "idle" => flying'[c] = <<>>
    BY <1>4, <1>7 DEF BatchInv, WaitsInOnePlace
  <2>4. \A c, d \in Calls : c # d => ToSet(flying'[c]) \cap ToSet(flying'[d]) = {}
    <3>1. \A c, d \in Calls : c # d => ToSet(flying[c]) \cap ToSet(flying[d]) = {}
      BY DEF BatchInv, WaitsInOnePlace
    <3>2. \A c \in Calls : c # k => ToSet(flying'[c]) = ToSet(flying[c]) /\ k \notin ToSet(flying[c])
      BY <1>4, <1>8
    <3> QED
      BY <1>5, <3>1, <3>2
  <2>5. \A c \in Calls : ToSet(flying'[c]) \cap ToSet(batched.calls) = {}
    BY <1>4, <1>5, <1>8 DEF BatchInv, WaitsInOnePlace
  <2> QED
    BY <1>1, <2>1, <2>2, <2>3, <2>4, <2>5 DEF WaitsInOnePlace
<1> QED
  BY <1>7, <1>8, <1>11, <1>12 DEF BatchInv

\* A call joins a batch of its own block only, or is the first in it.
LEMMA EnqueueBatch ==
  ASSUME BatchInv, NEW k \in Calls, read[k].pc = "idle", NEW tag \in Nat,
         read' = [read EXCEPT ![k] = [pc |-> "waiting", tag |-> tag, answer |-> 0]],
         ~_alreadyBatchedCallsConflictWith(tag), _enqueueCall(k, tag)
  PROVE  BatchInv'
<1> DEFINE t == IF batched.calls = <<>> THEN tag ELSE batched.tag
           s == Append(batched.calls, k)
<1>1. t = tag /\ (batched.calls # <<>> => tag = batched.tag)
  BY DEF _alreadyBatchedCallsConflictWith
<1>2. flying \in [Calls -> Seq(Calls)] /\ batched.calls \in Seq(Calls)
  BY DEF BatchInv, BatchTypes
<1>3. s \in Seq(Calls) /\ s # <<>> /\ ToSet(s) = ToSet(batched.calls) \cup {k}
  <2>1. s \in Seq(Calls) /\ s # <<>>
    BY <1>2, AppendProperties
  <2>2. ToSet(s) = ToSet(batched.calls) \cup {k}
    BY <1>2, ToSetAppend
  <2> QED
    BY <2>1, <2>2
<1>4. batched' = [tag |-> t, calls |-> s] /\ timer' = "running" /\ UNCHANGED <<call, flying>>
  BY DEF _enqueueCall, vars, clientVars
<1> HIDE DEF t, s
<1>5. /\ batched' \in [tag : Nat, calls : Seq(Calls)]
      /\ batched'.tag = tag /\ batched'.calls = s
  BY <1>1, <1>3, <1>4
<1>6. /\ read' \in [Calls -> ReadType] /\ AnswersItsBlock'
      /\ read'[k].pc = "waiting" /\ read'[k].tag = tag
      /\ \A j \in Calls : j # k => read'[j] = read[j]
      /\ k \notin ToSet(batched.calls) /\ \A c \in Calls : k \notin ToSet(flying[c])
  BY StartsToWait
<1>7. \A c \in Calls : ToSet(flying[c]) \subseteq Calls
  BY <1>2, ToSetOf
<1>8. ToSet(batched.calls) \subseteq Calls
  BY <1>2, ToSetOf
<1>9. BatchTypes'
  BY <1>3, <1>4, <1>5, <1>6 DEF BatchInv, BatchTypes
<1>10. CallsAnswered'
  BY <1>4 DEF BatchInv, CallsAnswered
<1>11. WaitsInOnePlace'
  <2>1. \A c \in Calls : \A j \in ToSet(flying[c]) :
          read'[j].pc = "waiting" /\ read'[j].tag = call[c].tag
    BY <1>6, <1>7 DEF BatchInv, WaitsInOnePlace
  <2>2. ASSUME NEW j \in ToSet(s)
        PROVE  read'[j].pc = "waiting" /\ read'[j].tag = tag
    <3>1. CASE j = k
      BY <1>6, <3>1
    <3>2. CASE j # k
      <4>1. j \in ToSet(batched.calls) /\ batched.calls # <<>>
        BY <1>3, <2>2, <3>2, ToSetEmpty
      <4> QED
        BY <1>1, <1>6, <1>8, <3>2, <4>1 DEF BatchInv, WaitsInOnePlace
    <3> QED
      BY <3>1, <3>2
  <2>3. \A c \in Calls : ToSet(flying[c]) \cap ToSet(s) = {}
    BY <1>3, <1>6 DEF BatchInv, WaitsInOnePlace
  <2>4. /\ \A c \in Calls : call[c].pc = "idle" => flying[c] = <<>>
        /\ \A c, d \in Calls : c # d => ToSet(flying[c]) \cap ToSet(flying[d]) = {}
    BY DEF BatchInv, WaitsInOnePlace
  <2> QED
    BY <1>4, <1>5, <2>1, <2>2, <2>3, <2>4 DEF WaitsInOnePlace
<1> QED
  BY <1>6, <1>9, <1>10, <1>11 DEF BatchInv

\* The batch as a whole becomes the callbacks of one call.
LEMMA DispatchBatch ==
  ASSUME BatchInv, SocketInv, _dispatchCalls
  PROVE  BatchInv'
<1> DEFINE s == batched.calls
           c == Head(s)
<1>1. /\ s \in Seq(Calls) /\ s # <<>> /\ batched.tag \in Nat
      /\ flying \in [Calls -> Seq(Calls)] /\ read \in [Calls -> ReadType]
  BY DEF _dispatchCalls, BatchInv, BatchTypes
<1>2. c \in Calls
  BY <1>1, HeadTailProperties
<1>3. /\ Call(c, batched.tag) /\ flying' = [flying EXCEPT ![c] = s]
      /\ batched' = emptyBatch /\ timer' = "none" /\ read' = read
  BY DEF _dispatchCalls
<1> HIDE DEF s, c
<1>4. /\ call' \in [Calls -> CallType] /\ CallsAnswered'
      /\ call'[c].pc = "sent" /\ call'[c].tag = batched.tag
      /\ \A d \in Calls : d # c => call'[d] = call[d]
  BY <1>1, <1>2, <1>3, SentCalls
<1>5. /\ flying' \in [Calls -> Seq(Calls)] /\ flying'[c] = s
      /\ \A d \in Calls : d # c => flying'[d] = flying[d]
  BY <1>1, <1>2, <1>3
<1>6. batched' \in [tag : Nat, calls : Seq(Calls)] /\ batched'.calls = <<>>
  BY <1>3 DEF emptyBatch
<1>7. ToSet(batched'.calls) = {}
  BY <1>6, ToSetEmpty
<1>8. BatchTypes'
  BY <1>1, <1>3, <1>4, <1>5, <1>6 DEF BatchTypes
<1>9. AnswersItsBlock'
  BY <1>3 DEF BatchInv, AnswersItsBlock
<1>10. WaitsInOnePlace'
  <2>1. ASSUME NEW d \in Calls, NEW j \in ToSet(flying'[d])
        PROVE  read[j].pc = "waiting" /\ read[j].tag = call'[d].tag
    <3>1. CASE d = c
      BY <2>1, <3>1, <1>4, <1>5 DEF BatchInv, WaitsInOnePlace, s
    <3>2. CASE d # c
      <4>1. j \in ToSet(flying[d]) /\ call'[d] = call[d]
        BY <2>1, <3>2, <1>4, <1>5
      <4> QED
        BY <4>1 DEF BatchInv, WaitsInOnePlace
    <3> QED
      BY <3>1, <3>2
  <2>2. \A d \in Calls : call'[d].pc = "idle" => flying'[d] = <<>>
    BY <1>4, <1>5 DEF BatchInv, WaitsInOnePlace
  <2>3. \A d, e \in Calls : d # e => ToSet(flying'[d]) \cap ToSet(flying'[e]) = {}
    <3>1. \A d \in Calls : ToSet(flying[d]) \cap ToSet(s) = {}
      BY DEF BatchInv, WaitsInOnePlace, s
    <3>2. \A d, e \in Calls : d # e => ToSet(flying[d]) \cap ToSet(flying[e]) = {}
      BY DEF BatchInv, WaitsInOnePlace
    <3> QED
      BY <1>5, <3>1, <3>2
  <2> QED
    BY <1>3, <1>7, <2>1, <2>2, <2>3 DEF WaitsInOnePlace
<1> QED
  BY <1>4, <1>8, <1>9, <1>10 DEF BatchInv

\* Those who waited for the call, and they alone, get what it was answered.
LEMMA SettleBatch ==
  ASSUME BatchInv, NEW c \in Calls, Settle(c)
  PROVE  BatchInv'
<1> DEFINE at == call[c].at
           S == ToSet(flying[c])
<1>1. /\ call \in [Calls -> CallType] /\ flying \in [Calls -> Seq(Calls)]
      /\ read \in [Calls -> ReadType]
  BY DEF BatchInv, BatchTypes
<1>2. /\ call' = [call EXCEPT ![c] = NoCall] /\ flying' = [flying EXCEPT ![c] = <<>>]
      /\ UNCHANGED <<batched, timer>>
      /\ read' = [k \in Calls |-> IF k \in S THEN [read[k] EXCEPT !.pc = "idle", !.answer = at]
                                  ELSE read[k]]
  BY <1>1 DEF Settle
<1>3. at \in Int /\ (call[c].tag # 0 => at \in {0, call[c].tag})
  BY <1>1 DEF Settle, BatchInv, CallsAnswered, CallType
<1>4. ASSUME NEW k \in S
      PROVE  read[k].tag = call[c].tag
  BY DEF BatchInv, WaitsInOnePlace
<1> HIDE DEF at, S
<1>5. ASSUME NEW k \in Calls
      PROVE  /\ read'[k] \in ReadType /\ read'[k].tag = read[k].tag
             /\ k \in S => read'[k].answer = at
             /\ k \notin S => read'[k] = read[k]
  <2>1. CASE k \in S
    <3> DEFINE r == [read[k] EXCEPT !.pc = "idle"]
    <3>1. r \in ReadType /\ r.tag = read[k].tag
      BY <1>1 DEF ReadType
    <3>2. read'[k] = [r EXCEPT !.answer = at]
      BY <1>2, <2>1
    <3> HIDE DEF r
    <3> QED
      BY <1>3, <2>1, <3>1, <3>2 DEF ReadType
  <2>2. CASE k \notin S
    BY <1>1, <1>2, <2>2
  <2> QED
    BY <2>1, <2>2
<1>6. read' \in [Calls -> ReadType]
  BY <1>2, <1>5
<1>7. NoCall \in CallType /\ NoCall.pc = "idle" /\ NoCall.at = 0
  <2>1. Base \in Provider
    BY DEF Provider
  <2> QED
    BY <2>1 DEF NoCall, CallType, CallPc
<1>8. /\ call' \in [Calls -> CallType] /\ call'[c] = NoCall
      /\ \A d \in Calls : d # c => call'[d] = call[d]
  BY <1>1, <1>2, <1>7
<1>9. /\ flying' \in [Calls -> Seq(Calls)] /\ flying'[c] = <<>>
      /\ \A d \in Calls : d # c => flying'[d] = flying[d]
  <2>1. <<>> \in Seq(Calls)
    OBVIOUS
  <2> QED
    BY <1>1, <1>2, <2>1
<1>10. BatchTypes'
  BY <1>2, <1>6, <1>8, <1>9 DEF BatchInv, BatchTypes
<1>11. CallsAnswered'
  BY <1>7, <1>8 DEF BatchInv, CallsAnswered
<1>12. AnswersItsBlock'
  <2>1. ASSUME NEW k \in Calls, read'[k].tag # 0
        PROVE  read'[k].answer \in {0, read'[k].tag}
    <3>1. CASE k \in S
      BY <1>3, <1>4, <1>5, <2>1, <3>1
    <3>2. CASE k \notin S
      BY <1>5, <2>1, <3>2 DEF BatchInv, AnswersItsBlock
    <3> QED
      BY <3>1, <3>2
  <2> QED
    BY <2>1 DEF AnswersItsBlock
<1>13. WaitsInOnePlace'
  <2>1. ToSet(flying'[c]) = {}
    BY <1>9, ToSetEmpty
  <2>2. ASSUME NEW d \in Calls, NEW k \in ToSet(flying'[d])
        PROVE  read'[k].pc = "waiting" /\ read'[k].tag = call'[d].tag
    <3>1. d # c
      BY <2>1, <2>2
    <3>2. k \in ToSet(flying[d]) /\ k \in Calls
      BY <1>1, <1>9, <2>2, <3>1, ToSetOf
    <3>3. k \notin S
      BY <3>1, <3>2 DEF BatchInv, WaitsInOnePlace, S
    <3> QED
      BY <1>5, <1>8, <3>1, <3>2, <3>3 DEF BatchInv, WaitsInOnePlace
  <2>3. ASSUME NEW k \in ToSet(batched.calls)
        PROVE  read'[k].pc = "waiting" /\ read'[k].tag = batched.tag
    <3>1. k \in Calls
      BY ToSetOf DEF BatchInv, BatchTypes
    <3>2. k \notin S
      BY DEF BatchInv, WaitsInOnePlace, S
    <3> QED
      BY <1>5, <3>1, <3>2 DEF BatchInv, WaitsInOnePlace
  <2>4. \A d \in Calls : call'[d].pc = "idle" => flying'[d] = <<>>
    BY <1>8, <1>9 DEF BatchInv, WaitsInOnePlace
  <2>5. \A d, e \in Calls : d # e => ToSet(flying'[d]) \cap ToSet(flying'[e]) = {}
    BY <1>9, <2>1 DEF BatchInv, WaitsInOnePlace
  <2>6. \A d \in Calls : ToSet(flying'[d]) \cap ToSet(batched.calls) = {}
    BY <1>9, <2>1 DEF BatchInv, WaitsInOnePlace
  <2> QED
    BY <1>2, <2>2, <2>3, <2>4, <2>5, <2>6 DEF WaitsInOnePlace
<1> QED
  BY <1>10, <1>11, <1>12, <1>13 DEF BatchInv

LEMMA NextBatch == BatchInv /\ SocketInv /\ [BatchedNext]_allVars => BatchInv'
<1> SUFFICES ASSUME BatchInv, SocketInv, [BatchedNext]_allVars PROVE BatchInv'
  OBVIOUS
<1>1. ASSUME UNCHANGED <<call, batched, timer, flying, read>> PROVE BatchInv'
  BY <1>1 DEF BatchInv, BatchTypes, CallsAnswered, WaitsInOnePlace, AnswersItsBlock
<1>2. CASE ProviderNext /\ UNCHANGED batchVars
  <2>1. call' = call \/ \E n \in Socket : Closed(n)
    BY <1>2, ProviderSteps
  <2> QED
    BY <1>1, <1>2, <2>1, ClosedCalls DEF batchVars
<1>3. CASE SetChainId \/ OthersJoin \/ TimerDue \/ UNCHANGED allVars
  <2>1. CASE OthersJoin \/ TimerDue
    <3>1. timer' \in {"none", "running", "due"} /\ UNCHANGED <<call, batched, flying, read>>
      BY <2>1 DEF OthersJoin, TimerDue, vars, clientVars
    <3>2. batched.calls # <<>>
      BY <2>1 DEF OthersJoin, TimerDue, BatchInv, BatchTypes
    <3>3. BatchTypes'
      BY <3>1, <3>2 DEF BatchInv, BatchTypes
    <3>4. CallsAnswered' /\ WaitsInOnePlace' /\ AnswersItsBlock'
      BY <3>1 DEF BatchInv, CallsAnswered, WaitsInOnePlace, AnswersItsBlock
    <3> QED
      BY <3>3, <3>4 DEF BatchInv
  <2>2. CASE SetChainId \/ UNCHANGED allVars
    BY <1>1, <2>2 DEF SetChainId, allVars, batchVars, vars, clientVars
  <2> QED
    BY <1>3, <2>1, <2>2
<1>4. ASSUME NEW k \in Calls, NEW tag \in 0 .. head, NEW b \in BOOLEAN, BatchedCall(k, tag, b)
      PROVE  BatchInv'
  <2>1. tag \in Nat
    BY <1>4
  <2>2. /\ read[k].pc = "idle"
        /\ read' = [read EXCEPT ![k] = [pc |-> "waiting", tag |-> tag, answer |-> 0]]
        /\ \/ SuperCall(k, tag)
           \/ ~_alreadyBatchedCallsConflictWith(tag) /\ _enqueueCall(k, tag)
    BY <1>4 DEF BatchedCall
  <2> QED
    BY <2>1, <2>2, SuperCallBatch, EnqueueBatch
<1>5. CASE _dispatchCalls
  BY <1>5, DispatchBatch
<1>6. ASSUME NEW c \in Calls, SuperAnswered(c) \/ Settle(c)
      PROVE  BatchInv'
  BY <1>6, AnsweredCalls, SettleBatch DEF SuperAnswered
<1> QED
  BY <1>2, <1>3, <1>4, <1>5, <1>6 DEF BatchedNext

\* Whoever a call is batched with, it is answered from the block it asked for.
THEOREM AnsweredFromItsBlock == BatchedSpec => []AnswersItsBlock
<1>1. BatchedInit => SocketInv
  BY InitSockets DEF BatchedInit
<1>2. BatchInv => AnswersItsBlock
  BY DEF BatchInv
<1> QED
  BY <1>1, <1>2, InitBatch, NextSockets, NextBatch, PTL DEF BatchedSpec
===============================================================================
