------------------------------ MODULE FeishuApi ------------------------------
(***************************************************************************)
(* The service in front of the Feishu API: one client behind one mutex,    *)
(* held from before a call's first request to its return.  A call looks up *)
(* the profile of a user in a cache with a time to live, and fetches it on *)
(* a miss; or sends or changes a message; or downloads a resource; or      *)
(* uploads an image or a file, for which it needs an access token.         *)
(* Uploads and downloads are retried.  Events of Feishu drop profiles from *)
(* the cache without the mutex.  The cache of chats is a second copy of    *)
(* the cache of users; its fetches are further calls of the client.        *)
(*                                                                         *)
(* Time is counted in ticks, and an instant is kept as the ticks left.     *)
(* Requests have no timeout.  A call is taken to hold the mutex for less   *)
(* than MaxHold ticks.                                                     *)
(***************************************************************************)
EXTENDS Naturals, Sequences, FiniteSets

CONSTANTS Tasks,      \* the tasks that call the service
          Users,      \* users, under the ids their profiles are cached by
          Capacity,   \* FEISHU_METADATA_CACHE_CAPACITY, at least 1
          Ttl,        \* FEISHU_USER_CACHE_TTL_SECS
          MaxRetries, \* FEISHU_API_MAX_RETRIES
          Margin,     \* the 300 s a token is refreshed early
          Floor,      \* the 60 s a token is used for at least
          Lifetimes,  \* the lifetimes ("expire") Feishu grants
          MaxHold,    \* bound: ticks a call holds the mutex
          MaxVersion, \* bound: changes of each user's profile
          None

ASSUME ApiAssumption ==
  /\ Capacity \in Nat \ {0} /\ Ttl \in Nat /\ MaxRetries \in Nat
  /\ Margin \in Nat /\ Floor \in Nat \ {0} /\ MaxHold \in Nat
  /\ MaxVersion \in [Users -> Nat]
  /\ 2 * MaxHold <= Margin
  /\ \A e \in Lifetimes: e \in Nat /\ e >= Floor + 2 * MaxHold

VARIABLES profile,   \* Feishu: the version of a user's profile
          cache,     \* user_cache: versions, with the ticks left
          task,      \* the calls in progress
          mutex,     \* the tasks that hold (the first) or wait for the client, in order
          held,      \* ticks since the first of them got it
          token,     \* access_token: ticks to token_expires_at, and to its real expiry
          granted,   \* Feishu: the grant on its way to the client
          seen,      \* history: the newest version a finished lookup answered
          told,      \* history: the version a user had when last dropped from the cache
          overtaken  \* history: the users last dropped while an older answer was on its way

vars == <<profile, cache, task, mutex, held, token, granted, seen, told, overtaken>>

(* One request of the SDK, with whatever retries the SDK makes of its own: *)
(* get_user; create, reply, update, recall and get_message.                *)
Direct == {"profile", "message"}

(* get_message_resource; upload_image and upload_file.  The client retries *)
(* them itself.                                                            *)
Retried == {"download", "upload"}

Kinds == Direct \cup Retried

Steps == {"lookup", "wait", "token", "grant", "request", "reply", "backoff", "done"}

(* "floor" is the oldest version the call may answer, from what was known   *)
(* when it began; "ver" the one in its answer, "tries" the requests that    *)
(* were refused.                                                            *)
Calls == [kind: Kinds, user: Users \cup {None}, pc: Steps, floor: Nat, ver: Nat,
          tries: 0..MaxRetries]

Token == [left: Nat, real: Nat]

ASSUME NoneAssumption == None \notin Users \cup Calls \cup Token

(* Every variable holds a value of its kind, the cache stays within its    *)
(* capacity, and no call has more than MaxRetries requests sent again.      *)
TypeOK ==
  /\ profile \in [Users -> Nat] /\ \A u \in Users: profile[u] <= MaxVersion[u]
  /\ DOMAIN cache \subseteq Users
  /\ cache \in [DOMAIN cache -> [ver: Nat, left: 0..Ttl]]
  /\ Cardinality(DOMAIN cache) <= Capacity
  /\ task \in [Tasks -> Calls \cup {None}]
  /\ mutex \in Seq(Tasks) /\ held \in 0..MaxHold
  /\ token \in Token /\ granted \in Token \cup {None}
  /\ seen \in [Users -> Nat] /\ told \in [Users -> Nat]
  /\ overtaken \subseteq Users

Init ==
  /\ profile = [u \in Users |-> 0]
  /\ cache = <<>>
  /\ task = [t \in Tasks |-> None]
  /\ mutex = <<>> /\ held = 0
  /\ token = [left |-> 0, real |-> 0] /\ granted = None
  /\ seen = [u \in Users |-> 0] /\ told = [u \in Users |-> 0]
  /\ overtaken = {}

-----------------------------------------------------------------------------
At(t, pc) == task[t] # None /\ task[t].pc = pc

Goto(t, pc) == task' = [task EXCEPT ![t].pc = pc]

Holds(t) == mutex # <<>> /\ Head(mutex) = t

Environment == <<profile, told, overtaken>>
Tokens      == <<token, granted>>

(* The guard of the mutex is dropped on every way out of a call. *)
Release == mutex' = Tail(mutex) /\ held' = 0

Fails(t) == task' = [task EXCEPT ![t] = None] /\ Release

Live(u) == u \in DOMAIN cache /\ cache[u].left > 0

Without(u) == [v \in DOMAIN cache \ {u} |-> cache[v]]

Newer(i, j) == IF i > j THEN i ELSE j

(* TtlCache::insert makes room by dropping the entry that expires first,   *)
(* also when it is about to overwrite another.                             *)
Evictable ==
  IF Cardinality(DOMAIN cache) < Capacity THEN {{}}
  ELSE {{u}: u \in {v \in DOMAIN cache: \A w \in DOMAIN cache: cache[v].left <= cache[w].left}}

Insert_WhenFull(u, ver) ==  \* mutant: the cache is cut down after it has overflowed only
  \E gone \in IF Cardinality(DOMAIN cache) <= Capacity THEN {{}} ELSE Evictable:
    cache' = [v \in (DOMAIN cache \ gone) \cup {u} |->
                IF v = u THEN [ver |-> ver, left |-> Ttl] ELSE cache[v]]

Insert(u, ver) ==
  \E gone \in Evictable:
    cache' = [v \in (DOMAIN cache \ gone) \cup {u} |->
                IF v = u THEN [ver |-> ver, left |-> Ttl] ELSE cache[v]]

-----------------------------------------------------------------------------
(* Calls that do not look into a cache wait for the client at once; tokio's *)
(* mutex serves in order.                                                   *)
Begin(t) ==
  /\ task[t] = None
  /\ \E kind \in Kinds \ {"profile"}:
       task' = [task EXCEPT ![t] = [kind |-> kind, user |-> None, pc |-> "wait",
                                    floor |-> 0, ver |-> 0, tries |-> 0]]
  /\ mutex' = Append(mutex, t)
  /\ UNCHANGED <<cache, held, Environment, Tokens, seen>>

(* What has been answered for a user, or dropped without an older answer    *)
(* being on its way, is known.                                              *)
Known(u) == Newer(seen[u], IF u \in overtaken THEN 0 ELSE told[u])

BeginLookup(t) ==
  /\ task[t] = None
  /\ \E u \in Users:
       task' = [task EXCEPT ![t] = [kind |-> "profile", user |-> u, pc |-> "lookup",
                                    floor |-> Known(u), ver |-> 0, tries |-> 0]]
  /\ UNCHANGED <<cache, mutex, held, Environment, Tokens, seen>>

Hit(t) ==
  /\ At(t, "lookup") /\ Live(task[t].user)
  /\ LET u == task[t].user IN
       /\ task' = [task EXCEPT ![t].pc = "done", ![t].ver = cache[u].ver]
       /\ seen' = [seen EXCEPT ![u] = Newer(@, cache[u].ver)]
  /\ UNCHANGED <<cache, mutex, held, Environment, Tokens>>

(* TtlCache::get drops an entry that has expired. *)
Miss(t) ==
  /\ At(t, "lookup") /\ ~ Live(task[t].user)
  /\ cache' = Without(task[t].user)
  /\ Goto(t, "wait")
  /\ mutex' = Append(mutex, t)
  /\ UNCHANGED <<held, Environment, Tokens, seen>>

Lock(t) ==
  /\ At(t, "wait") /\ Holds(t)
  /\ Goto(t, IF task[t].kind = "upload" THEN "token" ELSE "request")
  /\ UNCHANGED <<cache, mutex, held, Environment, Tokens, seen>>

-----------------------------------------------------------------------------
(* get_tenant_access_token *)
HasToken(t) ==
  /\ At(t, "token") /\ token.left > 0
  /\ Goto(t, "request")
  /\ UNCHANGED <<cache, mutex, held, Environment, Tokens, seen>>

AskToken(t) ==
  /\ At(t, "token") /\ token.left = 0
  /\ Goto(t, "grant")
  /\ \E e \in Lifetimes: granted' = [left |-> e, real |-> e]
  /\ UNCHANGED <<cache, mutex, held, Environment, token, seen>>

ValidFor_NoMargin(e) == e  \* mutant: a token is used until it expires

(* (response.expire - 300).max(60) *)
ValidFor(e) == IF e >= Margin + Floor THEN e - Margin ELSE Floor

(* "left" of a grant is "expire" as the answer says it. *)
TokenGranted(t) ==
  /\ At(t, "grant")
  /\ token' = [left |-> ValidFor(granted.left), real |-> granted.real]
  /\ granted' = None
  /\ Goto(t, "request")
  /\ UNCHANGED <<cache, mutex, held, Environment, seen>>

-----------------------------------------------------------------------------
(* Feishu reads the profile; its answer takes a while. *)
ProfileRead(t) ==
  /\ At(t, "request") /\ task[t].kind = "profile"
  /\ task' = [task EXCEPT ![t].pc = "reply", ![t].ver = profile[task[t].user]]
  /\ UNCHANGED <<cache, mutex, held, Environment, Tokens, seen>>

Fill_Unlocked(t) ==  \* mutant: the guard is dropped before the cache is filled
  \/ /\ At(t, "reply") /\ Holds(t)
     /\ Release
     /\ UNCHANGED <<cache, task, Environment, Tokens, seen>>
  \/ /\ At(t, "reply") /\ \A i \in DOMAIN mutex: mutex[i] # t
     /\ LET u == task[t].user IN
          /\ Insert(u, task[t].ver)
          /\ seen' = [seen EXCEPT ![u] = Newer(@, task[t].ver)]
     /\ Goto(t, "done")
     /\ UNCHANGED <<mutex, held, Environment, Tokens>>

(* get_user fills the cache while it holds the client. *)
Fill(t) ==
  /\ At(t, "reply")
  /\ LET u == task[t].user IN
       /\ Insert(u, task[t].ver)
       /\ seen' = [seen EXCEPT ![u] = Newer(@, task[t].ver)]
  /\ Goto(t, "done")
  /\ Release
  /\ UNCHANGED <<Environment, Tokens>>

(* Any request, for a token too, may be refused for good, get no answer or *)
(* one that cannot be read; what is uploaded may be empty or too large.    *)
RequestFails(t) ==
  /\ At(t, "token") \/ At(t, "request")
  /\ Fails(t)
  /\ UNCHANGED <<cache, Environment, Tokens, seen>>

RequestSucceeds(t) ==
  /\ At(t, "request") /\ task[t].kind # "profile"
  /\ task' = [task EXCEPT ![t] = None] /\ Release
  /\ UNCHANGED <<cache, Environment, Tokens, seen>>

(* "attempts" counts the request under way too. *)
MayRetry(tries) == tries + 1 <= MaxRetries

RequestRefused_Uncounted(t) ==  \* mutant: attempts is not incremented
  /\ At(t, "request") /\ task[t].kind \in Retried
  /\ MayRetry(task[t].tries)
  /\ Goto(t, "backoff")
  /\ UNCHANGED <<cache, mutex, held, Environment, Tokens, seen>>

(* A limited rate or a failure of the server: execute_json and             *)
(* get_message_resource ask again after a pause, with the client locked.   *)
(* An upload whose request cannot be cloned fails instead (RequestFails).   *)
RequestRefused(t) ==
  /\ At(t, "request") /\ task[t].kind \in Retried
  /\ MayRetry(task[t].tries)
  /\ task' = [task EXCEPT ![t].pc = "backoff", ![t].tries = @ + 1]
  /\ UNCHANGED <<cache, mutex, held, Environment, Tokens, seen>>

Retry(t) ==
  /\ At(t, "backoff")
  /\ Goto(t, "request")
  /\ UNCHANGED <<cache, mutex, held, Environment, Tokens, seen>>

Return(t) ==
  /\ At(t, "done")
  /\ task' = [task EXCEPT ![t] = None]
  /\ UNCHANGED <<cache, mutex, held, Environment, Tokens, seen>>

Step(t) ==
  \/ Hit(t) \/ Miss(t) \/ Lock(t)
  \/ HasToken(t) \/ AskToken(t) \/ TokenGranted(t)
  \/ ProfileRead(t) \/ Fill(t)
  \/ RequestFails(t) \/ RequestSucceeds(t) \/ RequestRefused(t) \/ Retry(t) \/ Return(t)

-----------------------------------------------------------------------------
(* Feishu: a user changes the profile. *)
Change(u) ==
  /\ profile[u] < MaxVersion[u]
  /\ profile' = [profile EXCEPT ![u] = @ + 1]
  /\ UNCHANGED <<cache, task, mutex, held, Tokens, seen, told, overtaken>>

(* An answer about the user is on its way and older than the profile. *)
Outdated(u) ==
  \E t \in Tasks: At(t, "reply") /\ task[t].user = u /\ task[t].ver < profile[u]

Invalidate_Expired(u) ==  \* mutant: only an expired entry is dropped
  /\ cache' = IF Live(u) THEN cache ELSE Without(u)
  /\ told' = [told EXCEPT ![u] = profile[u]]
  /\ overtaken' = IF Outdated(u) THEN overtaken \cup {u} ELSE overtaken \ {u}
  /\ UNCHANGED <<profile, task, mutex, held, Tokens, seen>>

(* invalidate_user_cache, when an event about a member arrives. *)
Invalidate(u) ==
  /\ cache' = Without(u)
  /\ told' = [told EXCEPT ![u] = profile[u]]
  /\ overtaken' = IF Outdated(u) THEN overtaken \cup {u} ELSE overtaken \ {u}
  /\ UNCHANGED <<profile, task, mutex, held, Tokens, seen>>

Less(n) == IF n = 0 THEN 0 ELSE n - 1

Tick ==
  /\ mutex # <<>> => held < MaxHold
  /\ held' = IF mutex = <<>> THEN 0 ELSE held + 1
  /\ cache' = [u \in DOMAIN cache |-> [cache[u] EXCEPT !.left = Less(@)]]
  /\ token' = [left |-> Less(token.left), real |-> Less(token.real)]
  /\ granted' = IF granted = None THEN None ELSE [granted EXCEPT !.real = Less(@)]
  /\ UNCHANGED <<task, mutex, Environment, seen>>

Next ==
  \/ \E t \in Tasks: Begin(t) \/ BeginLookup(t) \/ Step(t)
  \/ \E u \in Users: Change(u) \/ Invalidate(u)
  \/ Tick

Spec == Init /\ [][Next]_vars

(* The runtime polls every task, and Feishu answers or the connection breaks. *)
FairSpec == Spec /\ \A t \in Tasks: WF_vars(Step(t))

-----------------------------------------------------------------------------
(* A lookup never answers a profile older than one that had been answered  *)
(* for the user before the lookup began, nor one that an event had dropped  *)
(* by then without a fetch being under way -- hit or fetch, with whatever   *)
(* fetches, drops and expiries in between: fills come in the order in which *)
(* Feishu read the profiles.                                                *)
AnswersForward ==
  \A t \in Tasks: At(t, "done") => task[t].ver >= task[t].floor

(* After an event has dropped a user, the cache holds no profile older than *)
(* the event, unless the fetch of one was under way when it arrived.        *)
DropsOutdated ==
  \A u \in DOMAIN cache: cache[u].ver < told[u] => u \in overtaken

(* An upload is never under way with a token that Feishu takes for expired, *)
(* not in its last retry either: neither the time the grant took nor the    *)
(* time since the token was checked uses up the margin.                     *)
TokenIsValid ==
  \A t \in Tasks:
    task[t] # None /\ task[t].kind = "upload" /\ task[t].pc \in {"request", "backoff"}
      => token.real > 0

(* Every call returns: none waits for ever for the client, which others    *)
(* hold through their fetches, pauses and failures.                        *)
CallsReturn == \A t \in Tasks: task[t] # None ~> task[t] = None
=============================================================================
