--------------------------- MODULE CloudAccounts ---------------------------
(***************************************************************************)
(* The Baidu netdisk accounts of users: how an account is connected, used, *)
(* refreshed and disabled (backend/system/api.py, instance_media.py,       *)
(* baidu_netdisk_client.py, the user_cloud_accounts table of auth_store).  *)
(*                                                                         *)
(* A grant stands for one token bundle the provider has issued, an access  *)
(* token and a refresh token.  A refresh token is good once: it is traded  *)
(* for a new grant, which nobody knows but the request that traded it,     *)
(* until the request has written it to the row of the account.  No lock    *)
(* covers the way from the read of a row to its write.                     *)
(***************************************************************************)
EXTENDS Naturals, FiniteSets

CONSTANTS
    CloudUsers,     \* users
    BaiduUsers,     \* accounts at the provider
    CloudThreads,   \* threads of the server
    MaxStates,      \* bound: authorisations ever begun
    MaxGrants       \* bound: grants ever issued

ASSUME CloudAssumption == MaxStates \in Nat /\ MaxGrants \in Nat

VARIABLES
    row,       \* user_cloud_accounts, by user and provider_user_id
    oauth,     \* _cloud_oauth_states: token to user
    states,    \* authorisations begun so far
    issued,    \* grants issued so far
    live,      \* grants whose refresh token is still good
    call,      \* what each thread is doing
    dropped    \* history: accounts whose newest grant went down with a request

cloudVars == <<row, oauth, states, issued, live, call, dropped>>

Accounts == CloudUsers \X BaiduUsers
NoRow == [status |-> "none", grant |-> 0]
Resting == [pc |-> "rest"]
Pc(t, pc) == call[t].pc = pc
Move(t, pc) == call' = [call EXCEPT ![t].pc = pc]
Rest(t) == call' = [call EXCEPT ![t] = Resting]

CloudInit ==
    /\ row = [a \in Accounts |-> NoRow]
    /\ oauth = <<>> /\ states = 0
    /\ issued = 0 /\ live = {}
    /\ call = [t \in CloudThreads |-> Resting]
    /\ dropped = {}

\* the provider issues a grant in place of others
Issue(used) ==
    /\ issued < MaxGrants
    /\ issued' = issued + 1
    /\ live' = (live \ used) \cup {issued + 1}

-----------------------------------------------------------------------------
(* Connecting an account. *)

\* begin_baidu_netdisk_connect
BeginConnect(u) ==
    /\ states < MaxStates
    /\ states' = states + 1
    /\ oauth' = [s \in DOMAIN oauth \cup {states + 1} |-> IF s = states + 1 THEN u ELSE oauth[s]]
    /\ UNCHANGED <<row, issued, live, call, dropped>>

\* complete_baidu_netdisk_connect: the state is used up, whoever presents it; what
\* goes on is the user's own authorisation of some account of the provider
CompleteConnect(t, u, s, b) ==
    /\ Pc(t, "rest") /\ s \in DOMAIN oauth
    /\ oauth' = [r \in DOMAIN oauth \ {s} |-> oauth[r]]
    /\ \/ oauth[s] = u
          /\ call' = [call EXCEPT ![t] = [pc |-> "exchange", account |-> <<u, b>>]]
       \/ oauth[s] # u /\ UNCHANGED call
    /\ UNCHANGED <<row, states, issued, live, dropped>>

\* exchange_code, then get_account_profile, which may fail with the grant in hand
ExchangeCode(t) ==
    /\ Pc(t, "exchange")
    /\ \/ /\ Issue({})
          /\ \/ call' = [call EXCEPT ![t] = [pc |-> "connect", account |-> call[t].account, grant |-> issued + 1]]
             \/ Rest(t)
       \/ Rest(t) /\ UNCHANGED <<issued, live>>
    /\ UNCHANGED <<row, oauth, states, dropped>>

\* upsert_user_cloud_account: the row of this user and account, enabled again
Upserted(a, g) ==
    /\ row' = [row EXCEPT ![a] = [status |-> "enabled", grant |-> g]]
    /\ dropped' = dropped \ {a}

StoreConnected(t) ==
    /\ Pc(t, "connect")
    /\ \/ Upserted(call[t].account, call[t].grant)
       \/ UNCHANGED <<row, dropped>>
    /\ Rest(t)
    /\ UNCHANGED <<oauth, states, issued, live>>

\* disable_baidu_netdisk_account; calls that have read the row are under way
DisableAccount(a) ==
    /\ row[a].status = "enabled"
    /\ row' = [row EXCEPT ![a].status = "disabled"]
    /\ call' = [t \in CloudThreads |->
                   IF Pc(t, "use") \/ Pc(t, "refresh") \/ Pc(t, "store")
                   THEN [call[t] EXCEPT !.raced = @ \/ call[t].account = a] ELSE call[t]]
    /\ UNCHANGED <<oauth, states, issued, live, dropped>>

-----------------------------------------------------------------------------
(* Using an account: _run_with_cloud_account. *)

Started(t, a) ==
    call' = [call EXCEPT ![t] =
        [pc |-> "use", account |-> a, grant |-> row[a].grant, renewed |-> FALSE, raced |-> FALSE]]

\* mutant: the row is taken although the account is disabled
UseAnyAccount(t, a) ==
    /\ Pc(t, "rest") /\ row[a].status # "none"
    /\ Started(t, a)
    /\ UNCHANGED <<row, oauth, states, issued, live, dropped>>

\* get_cloud_account_by_id: a disabled account is not found
UseAccount(t, a) ==
    /\ Pc(t, "rest") /\ row[a].status = "enabled"
    /\ Started(t, a)
    /\ UNCHANGED <<row, oauth, states, issued, live, dropped>>

\* what a call of the provider can come to; it says "unauthorized" when the access
\* token has expired, or when this account may not read the file
ProviderAnswers == {"served", "error", "unauthorized"}

\* One call of several where a directory, a link and a text are needed.  The first
\* "unauthorized" leads to a refresh, the second is an error.
CallProvider(t) ==
    /\ Pc(t, "use")
    /\ \E answer \in ProviderAnswers :
          IF answer = "unauthorized" /\ ~call[t].renewed THEN Move(t, "refresh") ELSE Rest(t)
    /\ UNCHANGED <<row, oauth, states, issued, live, dropped>>

\* accounts whose row holds this grant
Holding(g) == {a \in Accounts : row[a].status # "none" /\ row[a].grant = g}

\* refresh_access_token: the refresh token read with the row is traded.  It may
\* have been traded by another request; the answer may be lost.
Refresh(t) ==
    /\ Pc(t, "refresh")
    /\ \/ /\ call[t].grant \in live
          /\ Issue({call[t].grant})
          /\ \/ /\ call' = [call EXCEPT ![t].pc = "store", ![t].grant = issued + 1]
                /\ UNCHANGED dropped
             \/ Rest(t) /\ dropped' = dropped \cup Holding(call[t].grant)
       \/ Rest(t) /\ UNCHANGED <<issued, live, dropped>>
    /\ UNCHANGED <<row, oauth, states>>

\* the row may hold a grant that cannot be refreshed any more
Lost(a) == IF row[a].grant \in live THEN {} ELSE {a}

\* mutant: the row keeps the refresh token it had
StoreAccessOnly(t) ==
    /\ Pc(t, "store")
    /\ row' = [row EXCEPT ![call[t].account].status = "enabled"]
    /\ call' = [call EXCEPT ![t].pc = "use", ![t].renewed = TRUE]
    /\ UNCHANGED <<oauth, states, issued, live, dropped>>

\* the upsert of the refreshed grant, which also enables the row; then the whole
\* use once more
StoreRefreshed(t) ==
    /\ Pc(t, "store")
    /\ \/ /\ Upserted(call[t].account, call[t].grant)
          /\ call' = [call EXCEPT ![t].pc = "use", ![t].renewed = TRUE]
       \/ /\ Rest(t)
          /\ dropped' = dropped \cup Lost(call[t].account)
          /\ UNCHANGED row
    /\ UNCHANGED <<oauth, states, issued, live>>

-----------------------------------------------------------------------------
\* the server stops and starts: authorisations begun are forgotten
CloudRestart ==
    /\ \E t \in CloudThreads : ~Pc(t, "rest")
    /\ call' = [t \in CloudThreads |-> Resting]
    /\ oauth' = <<>>
    /\ dropped' = dropped \cup UNION {Lost(call[t].account) : t \in {u \in CloudThreads : Pc(u, "store")}}
    /\ UNCHANGED <<row, states, issued, live>>

CloudNext ==
    \/ \E u \in CloudUsers : BeginConnect(u)
    \/ \E t \in CloudThreads :
          \/ \E u \in CloudUsers, s \in DOMAIN oauth, b \in BaiduUsers : CompleteConnect(t, u, s, b)
          \/ \E a \in Accounts : UseAccount(t, a)
          \/ ExchangeCode(t) \/ StoreConnected(t) \/ CallProvider(t) \/ Refresh(t) \/ StoreRefreshed(t)
    \/ \E a \in Accounts : DisableAccount(a)
    \/ CloudRestart

CloudSpec == CloudInit /\ [][CloudNext]_cloudVars

-----------------------------------------------------------------------------
(* Properties. *)

\* An account can always be refreshed again: overlapping refreshes and connections
\* never leave a row with a token that has been used up, unless the one request
\* that knew the newer one has failed before it could store it, or is about to
\* store it (instance_media.py:305-320).
GrantsAreKept ==
    \A a \in Accounts : row[a].status # "none" =>
        \/ row[a].grant \in live
        \/ a \in dropped
        \/ \E t \in CloudThreads : Pc(t, "store") /\ call[t].account = a /\ call[t].grant \in live

\* A disabled account comes back only when the user connects it again, or by the
\* refresh of a call that had read it before it was disabled (auth_store.py:2338).
ComesBackByRaceOnly ==
    [][\A a \in Accounts : row[a].status = "disabled" /\ row'[a].status = "enabled" =>
          \E t \in CloudThreads :
              /\ call[t].pc \in {"connect", "store"} /\ call[t].account = a
              /\ Pc(t, "connect") \/ call[t].raced]_cloudVars
=============================================================================
