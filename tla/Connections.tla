---------------------------- MODULE Connections ----------------------------
(***************************************************************************)
(* Connecting and disconnecting the providers of one workspace             *)
(* (application/connections.ts) over the tables oauth_states,              *)
(* provider_enablements and grants.                                        *)
(*                                                                         *)
(* A run is one execution of beginConnection, completeConnection,          *)
(* setApiKey, disconnect, or of a token refresh that a tool call needs; any *)
(* number of them are under way at once, in any replica, and every await   *)
(* separates two actions.  A prefix stands for the scopes its tools need,  *)
(* so a stored token set is the set of prefixes it was consented for.  The *)
(* vendor grants what it is asked for and no more.  What the refresh does  *)
(* inside its lock is module GrantRefresh; here it only reads the tokens   *)
(* and later saves what they were refreshed to.  An enablement left by a   *)
(* provider that is no longer registered takes part in nothing, so every   *)
(* prefix here is a registered one.                                        *)
(***************************************************************************)
EXTENDS Naturals

CONSTANTS
  Runs,         \* executions of the handlers, reused when they end
  Prefixes,     \* providers
  KeyPrefixes,  \* the ones connected by an api key
  Grants,
  GrantOf,      \* the grant whose tokens back a prefix
  States,       \* random OAuth states
  None,         \* what an idle run works on
  Bound         \* how many events reach the handlers: callbacks, api keys,
                \* disconnects, refreshes and failures, in any mix

ASSUME GrantAssumption == GrantOf \in [Prefixes -> Grants]

\* An api key serves the one provider it was made for.
ASSUME KeyAssumption ==
  /\ KeyPrefixes \subseteq Prefixes
  /\ \A p \in KeyPrefixes, q \in Prefixes : GrantOf[q] = GrantOf[p] => q = p
ASSUME NoneAssumption == None \notin Prefixes \cup States
ASSUME BoundAssumption == Bound \in Nat

VARIABLES
  enabled,   \* provider_enablements
  tokens,    \* the grants table: what the stored tokens cover, {} for no row
  rows,      \* the oauth_states table, with the scopes of the authorize url
  expired,   \* the states in it that are past their ten minutes
  drawn,     \* states that have been generated
  pc,        \* where each run stands
  at,        \* the prefix it works on
  got,       \* the tokens it has received
  with,      \* the OAuth state it was given
  traded,    \* history: states whose code has been sent to the vendor
  strayed,   \* history: grants on which a run stopped half way, or that a
             \* refresh has put back
  crossed,   \* history: grants on which a connect has crossed another run
  events     \* how many events have happened

stores == <<enabled, tokens>>
consents == <<rows, expired, drawn>>
locals == <<at, got, with>>
vars == <<enabled, tokens, rows, expired, drawn, pc, at, got, with, traded,
          strayed, crossed, events>>

Row == [state : States, prefix : Prefixes, scopes : SUBSET Prefixes]
Stages == {"idle", "putting", "exchanging", "saving", "enabling", "voting",
           "dropping", "refreshing"}
Connecting == {"exchanging", "saving", "enabling"}
Disconnecting == {"voting", "dropping"}

TypeOK ==
  /\ enabled \subseteq Prefixes
  /\ tokens \in [Grants -> SUBSET Prefixes]
  /\ rows \subseteq Row
  /\ expired \subseteq States
  /\ drawn \subseteq States
  /\ pc \in [Runs -> Stages]
  /\ at \in [Runs -> Prefixes \cup {None}]
  /\ got \in [Runs -> SUBSET Prefixes]
  /\ with \in [Runs -> States \cup {None}]
  /\ traded \subseteq States
  /\ strayed \subseteq Grants
  /\ crossed \subseteq Grants
  /\ events \in 0 .. Bound
  /\ \A r \in Runs :
       /\ pc[r] # "idle" => at[r] \in Prefixes
       /\ pc[r] \in {"putting", "exchanging"} => with[r] \in States

\* The prefixes that a grant backs.
On(g) == {p \in Prefixes : GrantOf[p] = g}

\* Some providers are connected, one after the other.
Init ==
  /\ enabled \in SUBSET Prefixes
  /\ tokens = [g \in Grants |-> enabled \cap On(g)]
  /\ rows = {}
  /\ expired = {}
  /\ drawn = {}
  /\ pc = [r \in Runs |-> "idle"]
  /\ at = [r \in Runs |-> None]
  /\ got = [r \in Runs |-> {}]
  /\ with = [r \in Runs |-> None]
  /\ traded = {}
  /\ strayed = {}
  /\ crossed = {}
  /\ events = 0

Event == events < Bound /\ events' = events + 1

Goto(r, stage) == pc' = [pc EXCEPT ![r] = stage]

\* The run works on p, with the tokens ts and the OAuth state s in hand.
Hold(r, p, ts, s) ==
  /\ at' = [at EXCEPT ![r] = p]
  /\ got' = [got EXCEPT ![r] = ts]
  /\ with' = [with EXCEPT ![r] = s]

\* The run returns or throws.
Finish(r) == Goto(r, "idle") /\ Hold(r, None, {}, None)

GrantAt(r) == GrantOf[at[r]]

\* Runs of these stages are under way on the grant.
Busy(g, stages) == \E r \in Runs : pc[r] \in stages /\ GrantAt(r) = g

\* A human may still answer a consent for the grant.
Pending(g) ==
  \/ Busy(g, {"putting"})
  \/ \E row \in rows : row.state \notin expired /\ GrantOf[row.prefix] = g

Crossing(g, met) == crossed' = IF met THEN crossed \cup {g} ELSE crossed
Straying(g, lost) == strayed' = IF lost THEN strayed \cup {g} ELSE strayed

-----------------------------------------------------------------------------
(* beginConnection *)

\* Mutant: the consent asks only for the prefix being connected.
ScopesForPrefix(p, connected) == {p}

\* The scopes to ask for: the prefix's own, and those of its connected
\* siblings on the same grant.
ScopesForGrant(p, connected) == {p} \cup (connected \cap On(GrantOf[p]))

\* A state is drawn and the connected prefixes are read.
Begin(r, p, s) ==
  /\ pc[r] = "idle" /\ p \notin KeyPrefixes /\ s \notin drawn
  /\ Goto(r, "putting")
  /\ Hold(r, p, ScopesForGrant(p, enabled), s)
  /\ drawn' = drawn \cup {s}
  /\ Crossing(GrantOf[p], Pending(GrantOf[p]) \/ Busy(GrantOf[p], Connecting))
  /\ UNCHANGED <<stores, rows, expired, traded, strayed, events>>

\* The state is stored and the authorize url returned.
Put(r) ==
  /\ pc[r] = "putting"
  /\ rows' = rows \cup {[state |-> with[r], prefix |-> at[r], scopes |-> got[r]]}
  /\ Finish(r)
  /\ UNCHANGED <<stores, expired, drawn, traded, strayed, crossed, events>>

\* Ten minutes pass.
ExpireState(row) ==
  /\ row.state \notin expired
  /\ expired' = expired \cup {row.state}
  /\ UNCHANGED <<stores, rows, drawn, pc, locals, traded, strayed, crossed, events>>

-----------------------------------------------------------------------------
(* completeConnection *)

\* What a callback with state s finds: its row, if it is there and not expired.
Live(s) == {row \in rows : row.state = s /\ s \notin expired}

\* The run goes on with what the row says.
Redeem(r, row) ==
  /\ Goto(r, "exchanging")
  /\ Hold(r, row.prefix, row.scopes, row.state)
  /\ Crossing(GrantOf[row.prefix],
       Busy(GrantOf[row.prefix], Connecting \cup Disconnecting \cup {"refreshing"}))

Delete(s) ==
  /\ rows' = {row \in rows : row.state # s}
  /\ expired' = expired \ {s}

\* Mutant: a live row is only read, for the handler to delete when it is done.
ConsumeKept(r, s) ==
  /\ pc[r] = "idle" /\ s \in drawn
  /\ Event
  /\ \/ (\E row \in Live(s) : Redeem(r, row)) /\ UNCHANGED <<rows, expired>>
     \/ Live(s) = {} /\ Delete(s) /\ UNCHANGED <<pc, locals, crossed>>
  /\ UNCHANGED <<stores, drawn, traded, strayed>>

\* The vendor redirects a browser here, as often as it is told to: a live row
\* is deleted and returned in one statement; without one the run ends, and the
\* expired row goes as well.
Consume(r, s) ==
  /\ pc[r] = "idle" /\ s \in drawn
  /\ Event
  /\ Delete(s)
  /\ \/ \E row \in Live(s) : Redeem(r, row)
     \/ Live(s) = {} /\ UNCHANGED <<pc, locals, crossed>>
  /\ UNCHANGED <<stores, drawn, traded, strayed>>

\* The vendor answers the code with tokens, or with a refusal that ends the run.
Exchange(r) ==
  /\ pc[r] = "exchanging"
  /\ \/ Goto(r, "saving") /\ UNCHANGED locals
     \/ Finish(r)
  /\ traded' = traded \cup {with[r]}
  /\ UNCHANGED <<stores, consents, strayed, crossed, events>>

-----------------------------------------------------------------------------
(* What a consent and an api key both end with *)

Save(r) ==
  /\ pc[r] = "saving"
  /\ tokens' = [tokens EXCEPT ![GrantAt(r)] = got[r]]
  /\ Goto(r, "enabling")
  /\ UNCHANGED <<enabled, consents, locals, traded, strayed, crossed, events>>

\* Mutant: the grant's name is stored where the prefix belongs.
EnableGrant(r) ==
  /\ pc[r] = "enabling"
  /\ enabled' = enabled \cup {GrantAt(r)}
  /\ Finish(r)
  /\ UNCHANGED <<tokens, consents, traded, strayed, crossed, events>>

Enable(r) ==
  /\ pc[r] = "enabling"
  /\ enabled' = enabled \cup {at[r]}
  /\ Finish(r)
  /\ UNCHANGED <<tokens, consents, traded, strayed, crossed, events>>

\* setApiKey, once the vendor has accepted the key.
SetKey(r, p) ==
  /\ pc[r] = "idle" /\ p \in KeyPrefixes
  /\ Event
  /\ Goto(r, "saving")
  /\ Hold(r, p, {p}, None)
  /\ Crossing(GrantOf[p], Busy(GrantOf[p], Connecting \cup Disconnecting))
  /\ UNCHANGED <<stores, consents, traded, strayed>>

-----------------------------------------------------------------------------
(* disconnect *)

Disable(r, p) ==
  /\ pc[r] = "idle"
  /\ Event
  /\ enabled' = enabled \ {p}
  /\ Goto(r, "voting")
  /\ Hold(r, p, {}, None)
  /\ Crossing(GrantOf[p], Busy(GrantOf[p], Connecting))
  /\ UNCHANGED <<tokens, consents, traded, strayed>>

\* Mutant: every registered prefix on the grant votes, enabled or not.
VoteByRegistry(r) ==
  /\ pc[r] = "voting"
  /\ IF On(GrantAt(r)) = {at[r]} THEN Goto(r, "dropping") /\ UNCHANGED locals
                                 ELSE Finish(r)
  /\ UNCHANGED <<stores, consents, traded, strayed, crossed, events>>

\* The prefixes still enabled are read: each one on the grant votes to keep it.
Vote(r) ==
  /\ pc[r] = "voting"
  /\ IF enabled \cap On(GrantAt(r)) = {} THEN Goto(r, "dropping") /\ UNCHANGED locals
                                          ELSE Finish(r)
  /\ UNCHANGED <<stores, consents, traded, strayed, crossed, events>>

Drop(r) ==
  /\ pc[r] = "dropping"
  /\ tokens' = [tokens EXCEPT ![GrantAt(r)] = {}]
  /\ Finish(r)
  /\ UNCHANGED <<enabled, consents, traded, strayed, crossed, events>>

-----------------------------------------------------------------------------
(* A refresh, and what cuts a run short *)

\* A tool call finds expired tokens, which an api key never is, and asks the
\* vendor for new ones; the refresh lock keeps a second call of the grant out.
Refresh(r, p) ==
  /\ pc[r] = "idle" /\ p \notin KeyPrefixes /\ tokens[GrantOf[p]] # {}
  /\ ~Busy(GrantOf[p], {"refreshing"})
  /\ Event
  /\ Goto(r, "refreshing")
  /\ Hold(r, p, tokens[GrantOf[p]], None)
  /\ Crossing(GrantOf[p], Busy(GrantOf[p], Connecting))
  /\ UNCHANGED <<stores, consents, traded, strayed>>

\* The refreshed tokens are saved, whether or not the row is still there.
RefreshSave(r) ==
  /\ pc[r] = "refreshing"
  /\ tokens' = [tokens EXCEPT ![GrantAt(r)] = got[r]]
  /\ Finish(r)
  /\ Straying(GrantAt(r), tokens[GrantAt(r)] = {})
  /\ UNCHANGED <<enabled, consents, traded, crossed, events>>

\* A query fails, the vendor does not answer or the replica dies: the run ends
\* where it stands, and nothing undoes what it has done.
Stop(r) ==
  /\ pc[r] # "idle"
  /\ Event
  /\ Finish(r)
  /\ Straying(GrantAt(r), pc[r] \in Disconnecting \cup {"enabling"})
  /\ UNCHANGED <<stores, consents, traded, crossed>>

-----------------------------------------------------------------------------

Next ==
  \/ \E r \in Runs :
       \/ \E p \in Prefixes, s \in States : Begin(r, p, s)
       \/ \E s \in States : Consume(r, s)
       \/ \E p \in Prefixes : SetKey(r, p) \/ Disable(r, p) \/ Refresh(r, p)
       \/ Put(r) \/ Exchange(r) \/ Save(r) \/ Enable(r) \/ Vote(r) \/ Drop(r)
       \/ RefreshSave(r) \/ Stop(r)
  \/ \E row \in rows : ExpireState(row)

Spec == Init /\ [][Next]_vars

-----------------------------------------------------------------------------
(* Properties *)

\* The code of one consent is sent to the vendor once, however many callbacks
\* arrive with its state and however they interleave: "a replayed state can
\* never be consumed twice even under concurrent callbacks".
TradedOnce ==
  \A r \in Runs : pc[r] = "exchanging" =>
    /\ with[r] \notin traded
    /\ \A q \in Runs \ {r} : pc[q] = "exchanging" => with[q] # with[r]

\* Stored tokens are never left behind: a provider that uses them is enabled,
\* or some run will still enable one or drop them.  Of two disconnects that
\* race on a shared grant, one always finds that it was the last.
NoOrphan ==
  \A g \in Grants \ strayed : tokens[g] # {} =>
    \/ enabled \cap On(g) # {}
    \/ Busy(g, Disconnecting \cup {"enabling"})

\* As long as no connect has crossed another run on its grant, an enabled
\* provider has tokens that cover it, also half way through a run and after
\* one that stopped there.
Usable ==
  \A p \in enabled : GrantOf[p] \notin crossed => p \in tokens[GrantOf[p]]

-----------------------------------------------------------------------------
(* The invariants behind them *)

\* A state in a run's hands is neither stored nor spent, nor in another's.
InHand == {r \in Runs : pc[r] \in {"putting", "exchanging"}}

TradeInv ==
  /\ \A row \in rows : row.state \in drawn \ traded
  /\ \A r \in InHand :
       /\ with[r] \in drawn \ traded
       /\ \A row \in rows : row.state # with[r]
       /\ \A q \in InHand : with[q] = with[r] => q = r
  /\ \A u, v \in rows : u.state = v.state => u = v
  /\ traded \subseteq drawn

\* On a grant that no connect has crossed another run on.
At(g, stages) == {r \in Runs : pc[r] \in stages /\ GrantAt(r) = g}
LiveRows(g) == {row \in rows : row.state \notin expired /\ GrantOf[row.prefix] = g}
Used(g) == enabled \cap On(g)

\* What a consent asks for, or a run is about to store, covers what is enabled.
CoverInv(g) ==
  /\ Used(g) \subseteq tokens[g]
  /\ \A row \in LiveRows(g) : Used(g) \cup {row.prefix} \subseteq row.scopes
  /\ \A r \in At(g, Connecting \cup {"putting"}) : Used(g) \cup {at[r]} \subseteq got[r]
  /\ \A r \in At(g, {"refreshing"}) : Used(g) \subseteq got[r]
  /\ \A r \in At(g, {"enabling"}) : tokens[g] = got[r]
  /\ At(g, {"dropping"}) # {} => Used(g) = {}

\* One consent or key at a time is on its way, and nothing else while it lands.
AloneInv(g) ==
  /\ \A row \in LiveRows(g) :
       /\ At(g, Connecting \cup {"putting"}) = {}
       /\ \A other \in LiveRows(g) : other = row
  /\ \A r, q \in At(g, Connecting \cup {"putting"}) : q = r
  /\ At(g, Connecting) # {} => At(g, Disconnecting \cup {"refreshing"}) = {}

\* A key is connected without a consent and never refreshed.
KeyInv ==
  /\ \A row \in rows : row.prefix \notin KeyPrefixes
  /\ \A r \in Runs : pc[r] \in {"putting", "refreshing"} => at[r] \notin KeyPrefixes

UseInv == KeyInv /\ \A g \in Grants \ crossed : CoverInv(g) /\ AloneInv(g)

-----------------------------------------------------------------------------

\* "The tokens only go when the last provider using them is gone.  Dropping
\* earlier would break a sibling" (connections.ts:165-166): the disconnect of a
\* provider deletes no tokens that a sibling is enabled on.
SiblingsKeepTokens ==
  [][\A r \in Runs :
       Drop(r) => enabled \cap On(GrantAt(r)) \subseteq {at[r]}]_vars
=============================================================================
