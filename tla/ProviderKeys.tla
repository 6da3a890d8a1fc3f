----------------------------- MODULE ProviderKeys -----------------------------
(***************************************************************************)
(* Credentials of the cloud providers: the key table and the OAuth flow    *)
(* (bmt_ai_os/controller/provider_config_routes.py).                       *)
(*                                                                         *)
(* The routes run on one event loop; the only await in which they change   *)
(* places is the exchange of a code for a token in oauth_callback.         *)
(* Encryption, masking and the PKCE pair are left out.  The table is a     *)
(* sequence in the order of created_at.                                    *)
(***************************************************************************)
EXTENDS Integers, Sequences, FiniteSets

CONSTANTS
    KeyProviders,    \* provider names as they are spelled in a path
    Lower,           \* str.lower on KeyProviders
    OAuthProviders,  \* OAUTH_PROVIDERS, in lower case
    RawKeys,         \* credentials, entered by hand or got from a provider
    OAuthStates,     \* random states; bounds the flows that are started
    Callbacks,       \* callbacks that may be in progress together
    StateLife,       \* _OAUTH_STATE_TTL, in ticks
    KeyLife,         \* expires_in, in ticks
    CooldownTime,    \* _COOLDOWN_SECONDS, in ticks
    MaxKeys, MaxUses \* bounds: the rows, and the uses counted

ASSUME KeysAssumption ==
    {StateLife, KeyLife, CooldownTime, MaxKeys, MaxUses} \subseteq Nat

VARIABLES
    keys,      \* provider_keys
    pending,   \* _oauth_state_store: the provider each known state is for
    age,       \* ticks since a state was made, up to StateLife + 1; -1: not made
    flight,    \* the callbacks awaiting their exchange
    exchanged  \* history: for each state, the provider it was made for, how often,
               \* at which providers and up to which age it was exchanged

keyVars == <<keys, pending, age, flight, exchanged>>

Never == KeyLife + 1   \* expires_at is NULL
NoFlight == [state |-> "none", provider |-> "none"]

KeysInit ==
    /\ keys = <<>>
    /\ pending = [s \in {} |-> "none"]
    /\ age = [s \in OAuthStates |-> -1]
    /\ flight = [c \in Callbacks |-> NoFlight]
    /\ exchanged = [s \in OAuthStates |-> [made |-> "none", at |-> {}, count |-> 0, age |-> 0]]

----------------------------------------------------------------------------
(* ProviderKeyStore.                                                       *)

IsUsable(k) == k.cooldown = 0 /\ k.left > 0

\* The rows of a provider, the one list_keys puts first: the least used, then
\* the oldest.
FirstKey(rows) ==
    CHOOSE i \in rows : \A j \in rows : \/ keys[i].uses < keys[j].uses
                                        \/ keys[i].uses = keys[j].uses /\ i <= j

RowsOf(p) == {i \in DOMAIN keys : keys[i].provider = p}

\* UNIQUE (provider_name, key_hash)
IsDuplicate(p, k) == \E i \in RowsOf(p) : keys[i].raw = k

AddKey(p, k, type, left) ==
    /\ ~IsDuplicate(p, k) /\ Len(keys) < MaxKeys
    /\ keys' = Append(keys, [provider |-> p, raw |-> k, type |-> type, left |-> left,
                             uses |-> 0, cooldown |-> 0])

\* The update of the first OAuth row, whichever row it was that had the token:
\* when it was another one the unique index refuses it and nothing is changed.
UpdateOAuthTokens(p, k) ==
    LET oauth == {i \in RowsOf(p) : keys[i].type = "oauth"}
        first == FirstKey(oauth)
    IN IF oauth # {} /\ keys[first].raw = k
       THEN keys' = [keys EXCEPT ![first].left = KeyLife]
       ELSE UNCHANGED keys

\* add_provider_key; an empty key, an unknown type or a duplicate is refused.
AddKeyRoute(p, k, type) ==
    /\ AddKey(p, k, type, Never)
    /\ UNCHANGED <<pending, age, flight, exchanged>>

DeleteKeyRoute(i) ==
    /\ i \in DOMAIN keys
    /\ keys' = [j \in 1 .. Len(keys) - 1 |-> keys[IF j < i THEN j ELSE j + 1]]
    /\ UNCHANGED <<pending, age, flight, exchanged>>

\* get_active_key_for_provider: pick_key and record_usage.
UseKey(p) ==
    LET usable == {i \in RowsOf(p) : IsUsable(keys[i])}
    IN /\ usable # {} /\ keys[FirstKey(usable)].uses < MaxUses
       /\ keys' = [keys EXCEPT ![FirstKey(usable)].uses = @ + 1]
       /\ UNCHANGED <<pending, age, flight, exchanged>>

\* record_error after a 429; other errors leave a text only.
RecordRateLimit(i) ==
    /\ i \in DOMAIN keys
    /\ keys' = [keys EXCEPT ![i].cooldown = CooldownTime]
    /\ UNCHANGED <<pending, age, flight, exchanged>>

----------------------------------------------------------------------------
(* The OAuth flow.                                                         *)

\* _cleanup_expired_oauth_states
Unexpired == [s \in {x \in DOMAIN pending : age[x] <= StateLife} |-> pending[s]]

OAuthStart(p, s) ==
    /\ Lower[p] \in OAuthProviders /\ age[s] = -1
    /\ pending' = [x \in DOMAIN Unexpired \cup {s} |-> IF x = s THEN p ELSE pending[x]]
    /\ age' = [age EXCEPT ![s] = 0]
    /\ exchanged' = [exchanged EXCEPT ![s].made = Lower[p]]
    /\ UNCHANGED <<keys, flight>>

\* Faulty: the state stays until the exchange has succeeded.
TakeLater(s) == Unexpired

\* _oauth_state_store.pop
TakeState(s) == [x \in DOMAIN Unexpired \ {s} |-> pending[x]]

\* Faulty: a state serves every provider.
IsKnown(s, p) == s \in DOMAIN Unexpired

\* The state was made for this provider and is not too old.
FitsProvider(s, p) == s \in DOMAIN Unexpired /\ Lower[pending[s]] = Lower[p]

\* oauth_callback up to its await.  The state is gone whether it fits or not.
CallbackStart(c, p, s) ==
    /\ flight[c] = NoFlight
    /\ pending' = TakeState(s)
    /\ IF FitsProvider(s, p)
       THEN /\ flight' = [flight EXCEPT ![c] = [state |-> s, provider |-> p]]
            /\ exchanged' = [exchanged EXCEPT ![s] =
                 [made |-> @.made, at |-> @.at \cup {Lower[p]}, count |-> @.count + 1,
                  age |-> IF @.age > age[s] THEN @.age ELSE age[s]]]
       ELSE UNCHANGED <<flight, exchanged>>
    /\ UNCHANGED <<keys, age>>

\* The provider refuses, cannot be reached or answers without a token.
CallbackFails(c) ==
    /\ flight[c] # NoFlight
    /\ flight' = [flight EXCEPT ![c] = NoFlight]
    /\ UNCHANGED <<keys, pending, age, exchanged>>

CallbackStores(c, k) ==
    /\ flight[c] # NoFlight
    /\ flight' = [flight EXCEPT ![c] = NoFlight]
    /\ LET p == flight[c].provider
       IN \/ AddKey(p, k, "oauth", KeyLife)
          \/ IsDuplicate(p, k) /\ UpdateOAuthTokens(p, k)
    /\ UNCHANGED <<pending, age, exchanged>>

KeysTick ==
    /\ keys' = [i \in DOMAIN keys |->
         [keys[i] EXCEPT !.cooldown = IF @ > 0 THEN @ - 1 ELSE 0,
                         !.left = IF @ \in {0, Never} THEN @ ELSE @ - 1]]
    /\ age' = [s \in OAuthStates |-> IF age[s] \in {-1, StateLife + 1} THEN age[s] ELSE age[s] + 1]
    /\ UNCHANGED <<pending, flight, exchanged>>

KeysNext ==
    \/ KeysTick
    \/ \E p \in KeyProviders, k \in RawKeys, t \in {"api_key", "oauth"} : AddKeyRoute(p, k, t)
    \/ \E i \in DOMAIN keys : DeleteKeyRoute(i) \/ RecordRateLimit(i)
    \/ \E p \in KeyProviders : UseKey(p)
    \/ \E p \in KeyProviders, s \in OAuthStates :
         OAuthStart(p, s) \/ \E c \in Callbacks : CallbackStart(c, p, s)
    \/ \E c \in Callbacks : CallbackFails(c) \/ \E k \in RawKeys : CallbackStores(c, k)

KeysSpec == KeysInit /\ [][KeysNext]_keyVars

----------------------------------------------------------------------------
KeyRow == [provider : KeyProviders, raw : RawKeys, type : {"api_key", "oauth"},
           left : 0 .. Never, uses : 0 .. MaxUses, cooldown : 0 .. CooldownTime]

\* No two rows of a provider hold the same credential.
RowsAreUnique ==
    \A i, j \in DOMAIN keys :
        keys[i].provider = keys[j].provider /\ keys[i].raw = keys[j].raw => i = j

LowerNames == {Lower[p] : p \in KeyProviders}

Exchanges == [made : LowerNames \cup {"none"}, at : SUBSET LowerNames, count : Nat, age : Nat]

KeysTypeOK ==
    /\ keys \in Seq(KeyRow)
    /\ RowsAreUnique
    /\ DOMAIN pending \subseteq OAuthStates
    /\ age \in [OAuthStates -> -1 .. StateLife + 1]
    /\ flight \in [Callbacks -> [state : OAuthStates, provider : KeyProviders] \cup {NoFlight}]
    /\ exchanged \in [OAuthStates -> Exchanges]

\* A state is exchanged once, within its life, and at the provider it was made for
\* only, in whatever spelling, although the callbacks of several requests overlap:
\* a callback that is repeated while the first one waits for the provider is
\* refused, and so is one under the path of another provider.
StatesAreSpentOnce ==
    \A s \in OAuthStates :
        /\ exchanged[s].count <= 1 /\ exchanged[s].age <= StateLife
        /\ exchanged[s].at \subseteq {exchanged[s].made}
        /\ s \in DOMAIN pending => exchanged[s].count = 0
=============================================================================
