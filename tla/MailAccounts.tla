----------------------------- MODULE MailAccounts -----------------------------
(***************************************************************************)
(* The mail accounts of a workspace: authorizations under way and          *)
(* connections, in one encrypted file (lib/mail-oauth.ts), and the grants  *)
(* of agents to use them, in another (lib/mail-grants.ts), under the       *)
(* requests of routes/mail-oauth.ts.                                       *)
(*                                                                         *)
(* Both files are read and written as a whole.  A request waits only for   *)
(* the mail provider, which is external: it answers, or the call fails.    *)
(* A completion reads the file again after its wait; a refresh and a       *)
(* disconnection write back the file they read before it.  Tokens, scopes  *)
(* and the assignment of skills are data and left out: a connection is the *)
(* authorization it came from.  When another workspace is made the active  *)
(* one, only requests that wait go on here.                                *)
(***************************************************************************)
EXTENDS Integers, Sequences

CONSTANTS Accounts,   \* accounts of the providers
          Flows,      \* authorizations, each begun once
          Agents,
          Calls,      \* requests that may wait for a provider at a time
          None,
          MaxGrants   \* bound: grants that are created

\* What the file of accounts may hold: the authorizations that wait, and the
\* authorization that each account was connected by.
Files == [pending : SUBSET Flows, connection : [Accounts -> Flows \cup {None}]]

ASSUME NoneIsApart == None \notin Flows \cup Files
ASSUME MailBounds == MaxGrants \in Nat

VARIABLES store,     \* mail-oauth.enc.json
          grants,    \* mail-capability-grants.json
          begun,     \* authorizations that were begun
          expired,   \* those whose ten minutes are over
          pc,        \* pc[c]: what c waits for, or "idle"
          subject,   \* subject[c]: the authorization or account it is about
          held,      \* held[c]: the file it will write back, or None
          truth,     \* history: the file if no change were ever undone
          exposed,   \* history: what changed while another call held the file
          exchanged, \* history: authorizations whose code was exchanged
          repeated,  \* history: those for which it was exchanged again
          dropped,   \* history: grants an answered disconnection was to revoke
          cut        \* history: accounts whose disconnection was cut short

files == <<store, grants>>
calls == <<pc, subject, held>>
vars == <<files, begun, expired, calls, truth, exposed, exchanged, repeated, dropped, cut>>

Items == Flows \cup Accounts
Holders == {c \in Calls : held[c] # None}

Init ==
  /\ store = [pending |-> {}, connection |-> [a \in Accounts |-> None]]
  /\ truth = store
  /\ grants = <<>>
  /\ begun = {} /\ expired = {}
  /\ pc = [c \in Calls |-> "idle"]
  /\ subject = [c \in Calls |-> None]
  /\ held = [c \in Calls |-> None]
  /\ exposed = {} /\ exchanged = {} /\ repeated = {} /\ dropped = {} /\ cut = {}

-----------------------------------------------------------------------------
(* Changes of the file of accounts.                                        *)

Connected(s) == {a \in Accounts : s.connection[a] # None}

Offer(s, f) == [s EXCEPT !.pending = (@ \ expired) \cup {f}]
Consume(s, f) == [s EXCEPT !.pending = @ \ {f}]
Connect(s, a, f) == [s EXCEPT !.connection[a] = f]

\* Variant: the entry of the account is deleted.
DropKey(s, a) ==
  [s EXCEPT !.connection = [b \in Accounts \ {a} |-> s.connection[b]]]

Drop(s, a) == [s EXCEPT !.connection[a] = None]

\* The items changed although one of the calls others holds the file.
Expose(items, others) ==
  exposed' = IF others = {} THEN exposed ELSE exposed \cup items

Wait(c, place, x, s) ==
  /\ pc' = [pc EXCEPT ![c] = place]
  /\ subject' = [subject EXCEPT ![c] = x]
  /\ held' = [held EXCEPT ![c] = s]

Done(c) == Wait(c, "idle", None, None)

-----------------------------------------------------------------------------
(* Authorizations.                                                         *)

\* beginMailOAuth
Begin(f) ==
  /\ f \notin begun
  /\ begun' = begun \cup {f}
  /\ store' = Offer(store, f)
  /\ truth' = Offer(truth, f)
  /\ Expose({f} \cup (store.pending \cap expired), Holders)
  /\ UNCHANGED <<grants, expired, calls, exchanged, repeated, dropped, cut>>

\* Its time is over, while it still is in a file.
Expire(f) ==
  /\ f \notin expired
  /\ f \in store.pending \/ \E c \in Holders : f \in held[c].pending
  /\ expired' = expired \cup {f}
  /\ UNCHANGED <<files, begun, calls, truth, exposed, exchanged, repeated, dropped, cut>>

\* Variant: it is taken out of the copy in memory, which is not written.
TakeUnsaved(f) ==
  /\ truth' = Consume(truth, f)
  /\ Expose({f}, Holders)
  /\ UNCHANGED store

\* completeMailOAuth takes the authorization out before anything else.
Take(f) ==
  /\ store' = Consume(store, f)
  /\ truth' = Consume(truth, f)
  /\ Expose({f}, Holders)

\* The callback of the provider. Late, or of somebody else: no more than that.
BeginComplete(c, f) ==
  /\ pc[c] = "idle" /\ f \in store.pending
  /\ Take(f)
  /\ \/ UNCHANGED <<calls, exchanged, repeated>>
     \/ /\ f \notin expired
        /\ Wait(c, "exchanging", f, None)
        /\ exchanged' = exchanged \cup {f}
        /\ repeated' = repeated \cup ({f} \cap exchanged)
  /\ UNCHANGED <<grants, begun, expired, dropped, cut>>

\* Variant: the copy from before the authorization was taken out is written.
EndCompleteWithOld(c, a) ==
  /\ pc[c] = "exchanging"
  /\ store' = Connect([store EXCEPT !.pending = @ \cup {subject[c]}], a, subject[c])
  /\ truth' = Connect(truth, a, subject[c])
  /\ Expose({a}, Holders)
  /\ Done(c)
  /\ UNCHANGED <<grants, begun, expired, exchanged, repeated, dropped, cut>>

\* The code was exchanged for the tokens of a, and the file is read again.
EndComplete(c, a) ==
  /\ pc[c] = "exchanging"
  /\ store' = Connect(store, a, subject[c])
  /\ truth' = Connect(truth, a, subject[c])
  /\ Expose({a}, Holders)
  /\ Done(c)
  /\ UNCHANGED <<grants, begun, expired, exchanged, repeated, dropped, cut>>

\* Every wait may end with an error, after which nothing is written.
Fail(c) ==
  /\ pc[c] # "idle"
  /\ Done(c)
  /\ UNCHANGED <<files, begun, expired, truth, exposed, exchanged, repeated, dropped, cut>>

-----------------------------------------------------------------------------
(* Connections.                                                            *)

\* refreshMailOAuth for an operator, or for an agent with a grant whose access
\* token is about to expire (executeGrantedMailCapability).
BeginRefresh(c, a) ==
  /\ pc[c] = "idle" /\ a \in Connected(store)
  /\ Wait(c, "refreshing", a, store)
  /\ UNCHANGED <<files, begun, expired, truth, exposed, exchanged, repeated, dropped, cut>>

EndRefresh(c) ==
  /\ pc[c] = "refreshing"
  /\ store' = held[c]
  /\ Done(c)
  /\ UNCHANGED <<grants, begun, expired, truth, exposed, exchanged, repeated, dropped, cut>>

\* DELETE of a connection: disconnectMailOAuth waits for the revocation.
BeginDisconnect(c, a) ==
  /\ pc[c] = "idle" /\ a \in Connected(store)
  /\ Wait(c, "revoking", a, store)
  /\ UNCHANGED <<files, begun, expired, truth, exposed, exchanged, repeated, dropped, cut>>

Forget(c) ==
  /\ pc[c] = "revoking"
  /\ store' = Drop(held[c], subject[c])
  /\ truth' = Drop(truth, subject[c])
  /\ Expose({subject[c]}, Holders \ {c})
  /\ UNCHANGED <<begun, expired, exchanged, repeated>>

Revoked(is) == [i \in DOMAIN grants |-> [grants[i] EXCEPT !.active = @ /\ i \notin is]]

Of(a) == {i \in DOMAIN grants : grants[i].account = a}

\* Variant: the first grant that is found.
RevokeFirst(a) == Revoked({i \in Of(a) : \A j \in Of(a) : i <= j})

\* revokeMailGrantsForConnection
RevokeAll(a) == Revoked(Of(a))

EndDisconnect(c) ==
  /\ Forget(c)
  /\ Done(c)
  /\ grants' = RevokeAll(subject[c])
  /\ dropped' = dropped \cup Of(subject[c])
  /\ UNCHANGED cut

\* All that waits is lost.
Stop ==
  /\ pc' = [c \in Calls |-> "idle"]
  /\ subject' = [c \in Calls |-> None]
  /\ held' = [c \in Calls |-> None]

\* The grants are not reached: the audit record or their file cannot be
\* written, the active workspace was switched while the provider revoked the
\* tokens, or the process dies between the two files.
CutDisconnect(c) ==
  /\ Forget(c)
  /\ Done(c) \/ Stop
  /\ cut' = cut \cup {subject[c]}
  /\ UNCHANGED <<grants, dropped>>

-----------------------------------------------------------------------------
(* Grants, workspaces and crashes.                                         *)

Current(a, p) == {i \in Of(a) : grants[i].agent = p}

\* Variant: any account may be granted.
CreateUnchecked(a, p) ==
  /\ Len(grants) < MaxGrants
  /\ grants' = Append(Revoked(Current(a, p)), [account |-> a, agent |-> p, active |-> TRUE])
  /\ UNCHANGED <<store, begun, expired, calls, truth, exposed, exchanged, repeated, dropped, cut>>

\* createMailCapabilityGrant: it takes the place of the agent's earlier one.
CreateGrant(a, p) ==
  /\ a \in Connected(store) /\ Len(grants) < MaxGrants
  /\ grants' = Append(Revoked(Current(a, p)), [account |-> a, agent |-> p, active |-> TRUE])
  /\ UNCHANGED <<store, begun, expired, calls, truth, exposed, exchanged, repeated, dropped, cut>>

\* revokeMailCapabilityGrant
RevokeGrant(i) ==
  /\ grants' = Revoked({i})
  /\ UNCHANGED <<store, begun, expired, calls, truth, exposed, exchanged, repeated, dropped, cut>>

\* A disconnection begun in another workspace ends in this one.
StrayDisconnect(a) ==
  /\ grants' = RevokeAll(a)
  /\ UNCHANGED <<store, begun, expired, calls, truth, exposed, exchanged, repeated, dropped, cut>>

Crash ==
  /\ Stop
  /\ UNCHANGED <<files, begun, expired, truth, exposed, exchanged, repeated, dropped, cut>>

Next ==
  \/ \E f \in Flows : Begin(f) \/ Expire(f)
  \/ \E c \in Calls, f \in Flows : BeginComplete(c, f)
  \/ \E c \in Calls, a \in Accounts :
       EndComplete(c, a) \/ BeginRefresh(c, a) \/ BeginDisconnect(c, a)
  \/ \E c \in Calls : EndRefresh(c) \/ EndDisconnect(c) \/ CutDisconnect(c) \/ Fail(c)
  \/ \E a \in Accounts, p \in Agents : CreateGrant(a, p)
  \/ \E i \in DOMAIN grants : RevokeGrant(i)
  \/ \E a \in Accounts : StrayDisconnect(a)
  \/ Crash

Spec == Init /\ [][Next]_vars

-----------------------------------------------------------------------------
(* Properties.                                                             *)

\* Every variable has its type: the two files, the requests that wait, and the
\* histories.
TypeOK ==
  /\ {store, truth} \subseteq Files
  /\ grants \in Seq([account : Accounts, agent : Agents, active : BOOLEAN])
  /\ Len(grants) <= MaxGrants
  /\ expired \subseteq begun /\ begun \subseteq Flows
  /\ pc \in [Calls -> {"idle", "exchanging", "refreshing", "revoking"}]
  /\ subject \in [Calls -> Items \cup {None}]
  /\ held \in [Calls -> Files \cup {None}]
  /\ exposed \subseteq Items /\ cut \subseteq Accounts
  /\ repeated \subseteq exchanged /\ exchanged \subseteq Flows
  /\ dropped \subseteq DOMAIN grants

\* What the file has wrong: authorizations and connections that are missing, are
\* back, or are older ones.
Undone ==
  {f \in Flows : (f \in store.pending) # (f \in truth.pending)} \cup
  {a \in Accounts : store.connection[a] # truth.connection[a]}

\* A change that was made is never undone, unless a refresh or a disconnection
\* had read the file before it and was still to write it back: completions, and
\* requests one after the other, lose nothing.
OnlyOverlapsAreUndone == Undone \subseteq exposed

\* The code of an authorization is exchanged once, with the same exception.
ExchangedOnce == repeated \subseteq exposed

\* A disconnection that was answered with success has revoked the grants of its
\* account for good, those of all agents and those made while it waited too.
DisconnectRevokes == \A i \in dropped : ~grants[i].active

\* An active grant is for a connected account, unless the disconnection of the
\* account was cut short or its connection was lost to an overlap.
GrantsFollowConnections ==
  \A i \in DOMAIN grants :
    grants[i].active => grants[i].account \in Connected(store) \cup exposed \cup cut

-----------------------------------------------------------------------------
(* What does not hold, although one would expect it of the code: see the     *)
(* README.                                                                   *)

\* Whatever was connected, disconnected, begun or used stays so.
NothingIsUndone == Undone = {}
=============================================================================
