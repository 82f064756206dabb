--------------------------- MODULE CapabilityTokens ---------------------------
(***************************************************************************)
(* Capability tokens (kernel-v2/src/auth/mod.rs) as the composer server    *)
(* uses them (server/composer_server.rs).  A token is a signed list of     *)
(* claims that its bearer keeps; the AuthManager keeps one entry per       *)
(* subject that counts the calls, and makes a new one when a token is      *)
(* shown whose entry it has not got.  Entries are shared: whoever has      *)
(* verified a token holds on to its entry.                                 *)
(*                                                                         *)
(* The map is behind a mutex, an entry's counter is an atomic: an action   *)
(* is one critical section or one access of the counter.                   *)
(***************************************************************************)
EXTENDS Integers, Sequences, FiniteSets

CONSTANTS
  Tokens,       \* tokens that may be issued
  SubjectOf,    \* [Tokens -> subjects]
  MaxCalls,     \* [Tokens -> Nat], 0 for no limit
  ScopesOf,     \* [Tokens -> sets of modes]
  Modes,        \* execution modes
  Checks,       \* uses of tokens, each by any client
  MaxEntries    \* bound on the entries that are made

ASSUME TokenAssumption ==
  /\ MaxCalls \in [Tokens -> Nat]
  /\ ScopesOf \in [Tokens -> SUBSET Modes]
  /\ DOMAIN SubjectOf = Tokens
  /\ MaxEntries \in Nat
  /\ IsFiniteSet(Tokens) /\ IsFiniteSet(Checks)

VARIABLES
  issuedAt,  \* the second in which each token was issued; 0 before, 3 when the
             \* time of the token is over
  entries,   \* the tracked tokens, in the order in which they were made
  tracked,   \* the map: the entry of each subject, 0 without one
  check      \* the uses of tokens

tokenVars == <<issuedAt, entries, tracked, check>>

Subjects == {SubjectOf[k] : k \in Tokens}
Seconds == {1, 2}
Expired == 3

\* What a use without a permit was about is forgotten.
Ended(place) == [at |-> place, token |-> {}, mode |-> {}, entry |-> 0]

TokensInit ==
  /\ issuedAt = [k \in Tokens |-> 0]
  /\ entries = <<>>
  /\ tracked = [s \in Subjects |-> 0]
  /\ check = [c \in Checks |-> Ended("new")]

MakeEntry(k, second) ==
  /\ Len(entries) < MaxEntries
  /\ entries' = Append(entries, [token |-> k, second |-> second, count |-> 0])
  /\ tracked' = [tracked EXCEPT ![SubjectOf[k]] = Len(entries) + 1]

\* issue_token: the entry of the subject's earlier token is replaced.
IssueToken(k, second) ==
  /\ issuedAt[k] = 0
  /\ \A j \in Tokens : issuedAt[j] \in Seconds => issuedAt[j] <= second
  /\ issuedAt' = [issuedAt EXCEPT ![k] = second]
  /\ MakeEntry(k, second)
  /\ UNCHANGED check

Seen(c, k, mode, n) ==
  check' = [check EXCEPT ![c] = [at |-> "verified", token |-> {k}, mode |-> {mode}, entry |-> n]]

\* verify_token compares the times of issue and expiry, which have a second's
\* precision; all tokens are given the same time to live.
KnownEntry(k) ==
  LET n == tracked[SubjectOf[k]]
  IN {m \in {n} : n # 0 /\ entries[n].second = issuedAt[k]}

VerifyToken(c, k, mode) ==
  /\ check[c].at = "new" /\ issuedAt[k] \in Seconds
  /\ IF KnownEntry(k) # {}
     THEN Seen(c, k, mode, tracked[SubjectOf[k]]) /\ UNCHANGED <<entries, tracked>>
     ELSE MakeEntry(k, issuedAt[k]) /\ Seen(c, k, mode, Len(entries) + 1)
  /\ UNCHANGED issuedAt

EntryOf(c) == entries[check[c].entry]
WithinLimit(n) ==
  MaxCalls[entries[n].token] > 0 => entries[n].count < MaxCalls[entries[n].token]
IsValid(n) == issuedAt[entries[n].token] # Expired /\ WithinLimit(n)

\* execute_bash asks for no permission: it goes on with a verified token.
ExecuteBash(c) ==
  /\ check[c].at = "verified"
  /\ check' = [check EXCEPT ![c] = Ended("unchecked")]
  /\ UNCHANGED <<issuedAt, entries, tracked>>

\* check_permission up to the counting of the call.
CheckPermission(c) ==
  /\ check[c].at = "verified"
  /\ check' = [check EXCEPT ![c] =
       IF IsValid(check[c].entry) /\ check[c].mode \subseteq ScopesOf[EntryOf(c).token]
       THEN [@ EXCEPT !.at = "allowed"] ELSE Ended("denied")]
  /\ UNCHANGED <<issuedAt, entries, tracked>>

\* Mutant: what the check has found is taken for granted.
RecordUnconditionally(c) ==
  /\ check[c].at = "allowed"
  /\ entries' = [entries EXCEPT ![check[c].entry].count = @ + 1]
  /\ check' = [check EXCEPT ![c].at = "permitted"]
  /\ UNCHANGED <<issuedAt, tracked>>

\* record_call: the count as it was before the increment decides.
RecordCall(c) ==
  /\ check[c].at = "allowed"
  /\ entries' = [entries EXCEPT ![check[c].entry].count = @ + 1]
  /\ check' = [check EXCEPT ![c] =
       IF WithinLimit(check[c].entry) THEN [@ EXCEPT !.at = "permitted"] ELSE Ended("denied")]
  /\ UNCHANGED <<issuedAt, tracked>>

RevokeToken(s) ==
  /\ tracked[s] # 0
  /\ tracked' = [tracked EXCEPT ![s] = 0]
  /\ UNCHANGED <<issuedAt, entries, check>>

CleanupTokens ==
  LET invalid == {s \in Subjects : tracked[s] # 0 /\ ~IsValid(tracked[s])}
  IN /\ invalid # {}
     /\ tracked' = [s \in Subjects |-> IF s \in invalid THEN 0 ELSE tracked[s]]
     /\ UNCHANGED <<issuedAt, entries, check>>

TimePasses(k) ==
  /\ issuedAt[k] \in Seconds
  /\ issuedAt' = [issuedAt EXCEPT ![k] = Expired]
  /\ UNCHANGED <<entries, tracked, check>>

TokensNext ==
  \/ \E k \in Tokens :
       \/ \E second \in Seconds : IssueToken(k, second)
       \/ \E c \in Checks, mode \in Modes : VerifyToken(c, k, mode)
       \/ TimePasses(k)
  \/ \E c \in Checks : ExecuteBash(c) \/ CheckPermission(c) \/ RecordCall(c)
  \/ \E s \in Subjects : RevokeToken(s)
  \/ CleanupTokens

TokensSpec == TokensInit /\ [][TokensNext]_tokenVars

-----------------------------------------------------------------------------
(* Properties *)

TokensTypeOK ==
  /\ issuedAt \in [Tokens -> {0, Expired} \cup Seconds]
  /\ entries \in Seq([token : Tokens, second : Seconds, count : Nat])
  /\ Len(entries) <= MaxEntries
  /\ tracked \in [Subjects -> 0..Len(entries)]
  /\ check \in [Checks -> [at : {"new", "verified", "unchecked", "allowed", "permitted", "denied"},
                           token : SUBSET Tokens, mode : SUBSET Modes, entry : 0..Len(entries)]]

\* Another token of the same subject was issued within the same second.
Twin(k) ==
  \E i, j \in 1..Len(entries) :
    /\ entries[i].token = k /\ entries[j].token # k
    /\ SubjectOf[entries[j].token] = SubjectOf[k] /\ entries[j].second = entries[i].second

\* Checks that interleave do not take a token beyond its limit, and it permits
\* only what its scopes name: a token with max_calls permits that many calls for
\* each entry made for it (by its issue, or by a verification after its entry
\* was revoked, replaced or cleaned up), unless a twin of it took its place.
\* (check_permission tests the count and counts in two steps, verify_token
\* tells tokens of a subject apart by their times.)
CallLimit ==
  \A k \in Tokens :
    LET permitted == {c \in Checks : check[c].at = "permitted" /\ check[c].token = {k}}
        made == {n \in 1..Len(entries) : entries[n].token = k}
    IN ~Twin(k) =>
         /\ MaxCalls[k] > 0 => Cardinality(permitted) <= MaxCalls[k] * Cardinality(made)
         /\ \A c \in permitted : check[c].mode \subseteq ScopesOf[k]

=============================================================================
