------------------------- MODULE KernelServiceProofs -------------------------
(***************************************************************************)
(* Proofs about services of the kernel that share no state: the capability *)
(* tokens, the tables of executors, the trace collector, the caches of     *)
(* prompts, the thread manager and work on several items at once.          *)
(***************************************************************************)
EXTENDS CapabilityTokens, ExecutorRegistry, TraceLog, PromptCache, ThreadManager, ParallelWork,
        DataLemmas, FunctionTheorems

-----------------------------------------------------------------------------
(***************************************************************************)
(* Proofs about the capability tokens, for every set of tokens, subjects,  *)
(* scopes and uses and for every limit.                                    *)
(*                                                                         *)
(* The limit of a token holds because the counter of each entry bounds the *)
(* uses that were permitted with that entry (Counted), and because a use   *)
(* with an entry of another token shows that this token is a twin (Shown). *)
(***************************************************************************)

PermittedBy(n) == {c \in Checks : check[c].at = "permitted" /\ check[c].entry = n}

\* The entry a subject has in the map is one of its own tokens.
Linked == \A s \in Subjects : tracked[s] # 0 => SubjectOf[entries[tracked[s]].token] = s

\* A token that was issued has an entry made when it was.
Issued ==
  \A k \in Tokens : issuedAt[k] \in Seconds =>
    \E i \in 1..Len(entries) : entries[i].token = k /\ entries[i].second = issuedAt[k]

\* A use that was verified is about a token with an entry made in the second of
\* the entry it was given, which belongs to a token of the same subject.
ShownBy(c, k) ==
  /\ check[c].token = {k}
  /\ SubjectOf[entries[check[c].entry].token] = SubjectOf[k]
  /\ \E i \in 1..Len(entries) :
       entries[i].token = k /\ entries[i].second = entries[check[c].entry].second
Shown ==
  \A c \in Checks : check[c].at \in {"verified", "allowed", "permitted"} =>
    check[c].entry # 0 /\ \E k \in Tokens : ShownBy(c, k)

\* A use that was allowed is within the scopes of its entry's token.
Scoped ==
  \A c \in Checks : check[c].at \in {"allowed", "permitted"} =>
    check[c].mode \subseteq ScopesOf[entries[check[c].entry].token]

\* The counter of an entry, and the limit of its token, bound its permitted uses.
Counted ==
  \A n \in 1..Len(entries) :
    /\ Cardinality(PermittedBy(n)) <= entries[n].count
    /\ MaxCalls[entries[n].token] > 0 =>
         Cardinality(PermittedBy(n)) <= MaxCalls[entries[n].token]

TokensInv == TokensTypeOK /\ Linked /\ Issued /\ Shown /\ Scoped /\ Counted

-----------------------------------------------------------------------------
(* Types *)

\* What a use may be while there are n entries.
UsesWith(n) ==
  [at : {"new", "verified", "unchecked", "allowed", "permitted", "denied"},
   token : SUBSET Tokens, mode : SUBSET Modes, entry : 0..n]

LEMMA UsesGrow ==
  ASSUME NEW m \in Nat, NEW n \in Nat, m <= n
  PROVE  UsesWith(m) \subseteq UsesWith(n)
<1>1. \A i \in 0..m : i \in 0..n
  OBVIOUS
<1>. QED  BY <1>1 DEF UsesWith

\* A use that is over, and one that was verified.
LEMMA UseForms ==
  ASSUME NEW n \in Nat
  PROVE  /\ \A place \in {"new", "unchecked", "denied"} : Ended(place) \in UsesWith(n)
         /\ \A k \in Tokens, mode \in Modes, i \in 0..n :
              [at |-> "verified", token |-> {k}, mode |-> {mode}, entry |-> i] \in UsesWith(n)
         /\ \A u \in UsesWith(n) :
              /\ [u EXCEPT !.at = "allowed"] \in UsesWith(n)
              /\ [u EXCEPT !.at = "permitted"] \in UsesWith(n)
<1>1. \A place \in {"new", "unchecked", "denied"} : Ended(place) \in UsesWith(n)
  BY DEF UsesWith, Ended
<1>2. \A k \in Tokens, mode \in Modes, i \in 0..n :
        [at |-> "verified", token |-> {k}, mode |-> {mode}, entry |-> i] \in UsesWith(n)
  BY DEF UsesWith
<1>3. \A u \in UsesWith(n) :
        [u EXCEPT !.at = "allowed"] \in UsesWith(n) /\ [u EXCEPT !.at = "permitted"] \in UsesWith(n)
  BY DEF UsesWith
<1>. QED  BY <1>1, <1>2, <1>3

\* Each element of a sequence is in its set.
LEMMA ElementOf == ASSUME NEW S, NEW es \in Seq(S), NEW i \in 1..Len(es) PROVE es[i] \in S
  OBVIOUS

LEMMA TypeInit == TokensInit => TokensTypeOK
  BY TokenAssumption DEF TokensInit, TokensTypeOK, Ended, Subjects, Seconds, Expired

\* A new entry keeps the others and is a subject's entry at once.
LEMMA NewEntry ==
  ASSUME TokensTypeOK, NEW k \in Tokens, NEW second \in Seconds, MakeEntry(k, second)
  PROVE  /\ entries' \in Seq([token : Tokens, second : Seconds, count : Nat])
         /\ Len(entries') = Len(entries) + 1 /\ Len(entries') <= MaxEntries
         /\ tracked' \in [Subjects -> 0..Len(entries')]
         /\ \A n \in 1..Len(entries) : entries'[n] = entries[n]
         /\ entries'[Len(entries) + 1] = [token |-> k, second |-> second, count |-> 0]
         /\ tracked'[SubjectOf[k]] = Len(entries) + 1
         /\ \A s \in Subjects : s # SubjectOf[k] => tracked'[s] = tracked[s]
<1>. USE DEF TokensTypeOK, MakeEntry
<1>. DEFINE e == [token |-> k, second |-> second, count |-> 0]
<1>1. e \in [token : Tokens, second : Seconds, count : Nat]
  OBVIOUS
<1>2. entries' = Append(entries, e) /\ Len(entries) < MaxEntries /\ Len(entries) \in Nat
  OBVIOUS
<1>. HIDE DEF e
<1>3. /\ entries' \in Seq([token : Tokens, second : Seconds, count : Nat])
      /\ Len(entries') = Len(entries) + 1 /\ Len(entries') <= MaxEntries
      /\ \A n \in 1..Len(entries) : entries'[n] = entries[n]
      /\ entries'[Len(entries) + 1] = e
  BY <1>1, <1>2, TokenAssumption
<1>4. SubjectOf[k] \in Subjects
  BY DEF Subjects
<1>. QED  BY <1>3, <1>4 DEF e

\* Counting a call changes only the counter of its entry.
LEMMA OneMoreCall ==
  ASSUME NEW n, NEW es \in Seq([token : Tokens, second : Seconds, count : Nat])
  PROVE  LET ns == [es EXCEPT ![n].count = @ + 1]
         IN /\ ns \in Seq([token : Tokens, second : Seconds, count : Nat])
            /\ Len(ns) = Len(es)
            /\ \A i \in 1..Len(es) :
                 /\ ns[i].token = es[i].token /\ ns[i].second = es[i].second
                 /\ ns[i].count = IF i = n THEN es[i].count + 1 ELSE es[i].count
<1>. DEFINE E == [token : Tokens, second : Seconds, count : Nat]
            ns == [es EXCEPT ![n].count = @ + 1]
<1>1. \A i \in 1..Len(es) : es[i] \in E
  <2>. HIDE DEF E, ns
  <2>1. es \in Seq(E)
    BY DEF E
  <2>. QED  BY <2>1
<1>2. \A e \in E : [e EXCEPT !.count = @ + 1] \in E
  OBVIOUS
<1>3. \A i \in 1..Len(es) : ns[i] = IF i = n THEN [es[i] EXCEPT !.count = @ + 1] ELSE es[i]
  OBVIOUS
<1>4. \A i \in 1..Len(es) : ns[i] \in E
  BY <1>1, <1>2, <1>3
<1>5. DOMAIN ns = 1..Len(es) /\ Len(es) \in Nat
  OBVIOUS
<1>6. ns = [i \in 1..Len(es) |-> ns[i]]
  BY <1>5
<1>7. ns \in Seq(E) /\ Len(ns) = Len(es)
  <2>. HIDE DEF ns, E
  <2>. QED  BY <1>4, <1>5, <1>6
<1>. QED  BY <1>1, <1>3, <1>7

LEMMA TypeStep == TokensTypeOK /\ [TokensNext]_tokenVars => TokensTypeOK'
<1>. SUFFICES ASSUME TokensTypeOK, [TokensNext]_tokenVars
              PROVE  TokensTypeOK'
  OBVIOUS
<1>0. /\ issuedAt \in [Tokens -> {0, Expired} \cup Seconds]
      /\ entries \in Seq([token : Tokens, second : Seconds, count : Nat])
      /\ Len(entries) \in Nat /\ Len(entries) <= MaxEntries
      /\ tracked \in [Subjects -> 0..Len(entries)]
      /\ check \in [Checks -> UsesWith(Len(entries))]
  BY DEF TokensTypeOK, UsesWith
<1>a. SUFFICES /\ issuedAt' \in [Tokens -> {0, Expired} \cup Seconds]
               /\ entries' \in Seq([token : Tokens, second : Seconds, count : Nat])
               /\ Len(entries') <= MaxEntries
               /\ tracked' \in [Subjects -> 0..Len(entries')]
               /\ check' \in [Checks -> UsesWith(Len(entries'))]
  BY DEF TokensTypeOK, UsesWith
<1>1. ASSUME NEW k \in Tokens, NEW second \in Seconds, IssueToken(k, second)
      PROVE  TokensTypeOK'
  <2>1. MakeEntry(k, second) /\ check' = check /\ issuedAt' = [issuedAt EXCEPT ![k] = second]
    BY <1>1 DEF IssueToken
  <2>a. Len(entries') = Len(entries) + 1
    BY <2>1, NewEntry
  <2>2. UsesWith(Len(entries)) \subseteq UsesWith(Len(entries'))
    BY <2>a, <1>0, UsesGrow
  <2>. QED  BY <1>0, <2>1, <2>2, NewEntry DEF TokensTypeOK, UsesWith
<1>2. ASSUME NEW c \in Checks, NEW k \in Tokens, NEW mode \in Modes, VerifyToken(c, k, mode)
      PROVE  TokensTypeOK'
  <2>0. SubjectOf[k] \in Subjects /\ issuedAt[k] \in Seconds /\ issuedAt' = issuedAt
    BY <1>2 DEF Subjects, VerifyToken
  <2>. DEFINE seen(i) == [at |-> "verified", token |-> {k}, mode |-> {mode}, entry |-> i]
  <2>1. CASE KnownEntry(k) # {}
    <3>1. /\ check' = [check EXCEPT ![c] = seen(tracked[SubjectOf[k]])]
          /\ UNCHANGED <<entries, tracked>>
      BY <1>2, <2>1 DEF VerifyToken, Seen
    <3>2. seen(tracked[SubjectOf[k]]) \in UsesWith(Len(entries))
      BY <1>0, <2>0, UseForms
    <3>. HIDE DEF seen
    <3>. QED  BY <1>0, <2>0, <3>1, <3>2 DEF TokensTypeOK, UsesWith
  <2>2. CASE KnownEntry(k) = {}
    <3>1. /\ MakeEntry(k, issuedAt[k])
          /\ check' = [check EXCEPT ![c] = seen(Len(entries) + 1)]
      BY <1>2, <2>2 DEF VerifyToken, Seen
    <3>a. Len(entries') = Len(entries) + 1
      BY <3>1, <2>0, NewEntry
    <3>2. UsesWith(Len(entries)) \subseteq UsesWith(Len(entries'))
      BY <3>a, <1>0, UsesGrow
    <3>3. Len(entries) + 1 \in 0..Len(entries') /\ Len(entries') \in Nat
      BY <3>a, <1>0
    <3>4. seen(Len(entries) + 1) \in UsesWith(Len(entries'))
      BY <3>3, UseForms
    <3>. HIDE DEF seen
    <3>. QED  BY <1>0, <2>0, <3>1, <3>2, <3>4, NewEntry DEF TokensTypeOK, UsesWith
  <2>. QED  BY <2>1, <2>2
<1>3. ASSUME NEW c \in Checks, ExecuteBash(c) \/ CheckPermission(c)
      PROVE  TokensTypeOK'
  <2>1. /\ UNCHANGED <<issuedAt, entries, tracked>>
        /\ \/ check' = [check EXCEPT ![c] = Ended("unchecked")]
           \/ check' = [check EXCEPT ![c] = Ended("denied")]
           \/ check' = [check EXCEPT ![c] = [check[c] EXCEPT !.at = "allowed"]]
    BY <1>3, <1>0 DEF ExecuteBash, CheckPermission
  <2>2. check[c] \in UsesWith(Len(entries))
    BY <1>0
  <2>3. check' \in [Checks -> UsesWith(Len(entries))]
    BY <1>0, <2>1, <2>2, UseForms
  <2>. QED  BY <1>0, <2>1, <2>3 DEF TokensTypeOK, UsesWith
<1>4. ASSUME NEW c \in Checks, RecordCall(c)
      PROVE  TokensTypeOK'
  <2>1. /\ UNCHANGED <<issuedAt, tracked>>
        /\ entries' = [entries EXCEPT ![check[c].entry].count = @ + 1]
        /\ \/ check' = [check EXCEPT ![c] = Ended("denied")]
           \/ check' = [check EXCEPT ![c] = [check[c] EXCEPT !.at = "permitted"]]
    BY <1>4, <1>0 DEF RecordCall
  <2>2. check[c] \in UsesWith(Len(entries))
    BY <1>0
  <2>3. check' \in [Checks -> UsesWith(Len(entries))]
    BY <1>0, <2>1, <2>2, UseForms
  <2>4. /\ entries' \in Seq([token : Tokens, second : Seconds, count : Nat])
        /\ Len(entries') = Len(entries)
    BY <1>0, <2>1, OneMoreCall
  <2>. QED  BY <1>0, <2>1, <2>3, <2>4 DEF TokensTypeOK, UsesWith
<1>5. ASSUME NEW s \in Subjects, RevokeToken(s)
      PROVE  TokensTypeOK'
  BY <1>5, <1>0 DEF RevokeToken, TokensTypeOK, UsesWith
<1>6. CASE CleanupTokens
  BY <1>6, <1>0 DEF CleanupTokens, TokensTypeOK, UsesWith
<1>7. ASSUME NEW k \in Tokens, TimePasses(k)
      PROVE  TokensTypeOK'
  BY <1>7, <1>0 DEF TimePasses, TokensTypeOK, UsesWith
<1>8. CASE UNCHANGED tokenVars
  BY <1>8, <1>0 DEF tokenVars, TokensTypeOK, UsesWith
<1>. QED
  BY <1>1, <1>2, <1>3, <1>4, <1>5, <1>6, <1>7, <1>8 DEF TokensNext, TokensTypeOK, UsesWith

\* Entries, the map and the uses of tokens keep their form: a use never refers to
\* an entry that was not made.
THEOREM TokensTypeCorrect == TokensSpec => []TokensTypeOK
  BY TypeInit, TypeStep, PTL DEF TokensSpec

-----------------------------------------------------------------------------
(* The inductive invariant *)

\* What a step does to the entries: they stay, their counters apart.
Kept ==
  /\ Len(entries) \in Nat /\ Len(entries') \in Nat /\ Len(entries) <= Len(entries')
  /\ \A i \in 1..Len(entries) :
       entries'[i].token = entries[i].token /\ entries'[i].second = entries[i].second

LEMMA NewEntryFields ==
  ASSUME TokensTypeOK, NEW k \in Tokens, NEW second \in Seconds, MakeEntry(k, second)
  PROVE  /\ Kept
         /\ Len(entries') = Len(entries) + 1
         /\ \A n \in 1..Len(entries) : entries'[n] = entries[n]
         /\ entries'[Len(entries')].token = k
         /\ entries'[Len(entries')].second = second
         /\ entries'[Len(entries')].count = 0
         /\ tracked'[SubjectOf[k]] = Len(entries')
         /\ \A s \in Subjects : s # SubjectOf[k] => tracked'[s] = tracked[s]
<1>1. Len(entries) \in Nat
  BY DEF TokensTypeOK
<1>. DEFINE e == [token |-> k, second |-> second, count |-> 0]
<1>2. /\ Len(entries') = Len(entries) + 1
      /\ \A n \in 1..Len(entries) : entries'[n] = entries[n]
      /\ entries'[Len(entries) + 1] = e
      /\ tracked'[SubjectOf[k]] = Len(entries) + 1
      /\ \A s \in Subjects : s # SubjectOf[k] => tracked'[s] = tracked[s]
  BY NewEntry
<1>3. e.token = k /\ e.second = second /\ e.count = 0
  OBVIOUS
<1>. HIDE DEF e
<1>4. Kept
  BY <1>1, <1>2 DEF Kept
<1>. QED  BY <1>2, <1>3, <1>4

LEMMA EntriesKept == TokensTypeOK /\ [TokensNext]_tokenVars => Kept
<1>. SUFFICES ASSUME TokensTypeOK, [TokensNext]_tokenVars
              PROVE  Kept
  OBVIOUS
<1>0. /\ entries \in Seq([token : Tokens, second : Seconds, count : Nat])
      /\ Len(entries) \in Nat
  BY DEF TokensTypeOK
<1>1. ASSUME NEW k \in Tokens, NEW second \in Seconds, MakeEntry(k, second)
      PROVE  Kept
  BY <1>1, NewEntryFields
<1>2. ASSUME NEW c \in Checks, RecordCall(c)
      PROVE  Kept
  <2>1. entries' = [entries EXCEPT ![check[c].entry].count = @ + 1]
    BY <1>2 DEF RecordCall
  <2>. QED  BY <1>0, <2>1, OneMoreCall DEF Kept
<1>3. CASE entries' = entries
  BY <1>0, <1>3 DEF Kept
<1>4. ASSUME NEW c \in Checks, NEW k \in Tokens, NEW mode \in Modes, VerifyToken(c, k, mode)
      PROVE  Kept
  <2>1. issuedAt[k] \in Seconds /\ (entries' = entries \/ MakeEntry(k, issuedAt[k]))
    BY <1>4 DEF VerifyToken
  <2>. QED  BY <1>1, <1>3, <2>1
<1>. QED
  BY <1>1, <1>2, <1>3, <1>4
     DEF TokensNext, IssueToken, TimePasses, ExecuteBash, CheckPermission, RevokeToken,
         CleanupTokens, tokenVars

LEMMA LinkedStep == TokensTypeOK /\ Linked /\ [TokensNext]_tokenVars => Linked'
<1>. SUFFICES ASSUME TokensTypeOK, Linked, [TokensNext]_tokenVars
              PROVE  Linked'
  OBVIOUS
<1>. USE DEF Linked
<1>0. Kept
  BY EntriesKept
<1>1. tracked \in [Subjects -> 0..Len(entries)]
  BY DEF TokensTypeOK
<1>2. ASSUME NEW k \in Tokens, NEW second \in Seconds, MakeEntry(k, second)
      PROVE  Linked'
  <2>1. /\ entries'[Len(entries')].token = k
        /\ tracked'[SubjectOf[k]] = Len(entries')
        /\ \A s \in Subjects : s # SubjectOf[k] => tracked'[s] = tracked[s]
    BY <1>2, NewEntryFields
  <2>. QED  BY <1>0, <1>1, <2>1 DEF Kept
<1>3. CASE \A s \in Subjects : tracked'[s] \in {0, tracked[s]}
  BY <1>0, <1>1, <1>3 DEF Kept
<1>4. ASSUME NEW c \in Checks, NEW k \in Tokens, NEW mode \in Modes, VerifyToken(c, k, mode)
      PROVE  Linked'
  <2>1. issuedAt[k] \in Seconds /\ (tracked' = tracked \/ MakeEntry(k, issuedAt[k]))
    BY <1>4 DEF VerifyToken
  <2>. QED  BY <1>2, <1>3, <2>1
<1>5. ASSUME NEW s \in Subjects, RevokeToken(s)
      PROVE  Linked'
  BY <1>1, <1>3, <1>5 DEF RevokeToken
<1>6. CASE CleanupTokens
  BY <1>1, <1>3, <1>6 DEF CleanupTokens
<1>. QED
  BY <1>2, <1>3, <1>4, <1>5, <1>6
     DEF TokensNext, IssueToken, TimePasses, ExecuteBash, CheckPermission, RecordCall, tokenVars

LEMMA IssuedStep == TokensTypeOK /\ Issued /\ [TokensNext]_tokenVars => Issued'
<1>. SUFFICES ASSUME TokensTypeOK, Issued, [TokensNext]_tokenVars,
                     NEW k \in Tokens, issuedAt'[k] \in Seconds
              PROVE  \E i \in 1..Len(entries') :
                       entries'[i].token = k /\ entries'[i].second = issuedAt'[k]
  BY DEF Issued
<1>0. Kept /\ issuedAt \in [Tokens -> {0, Expired} \cup Seconds]
  BY EntriesKept DEF TokensTypeOK
<1>1. CASE issuedAt'[k] = issuedAt[k]
  BY <1>0, <1>1 DEF Kept, Issued
<1>2. CASE issuedAt'[k] # issuedAt[k]
  <2>1. PICK second \in Seconds : IssueToken(k, second)
    <3>1. ASSUME NEW j \in Tokens, NEW second \in Seconds, IssueToken(j, second)
          PROVE  IssueToken(k, second)
      BY <1>0, <1>2, <3>1 DEF IssueToken
    <3>2. ASSUME NEW j \in Tokens, TimePasses(j)
          PROVE  FALSE
      BY <1>0, <1>2, <3>2 DEF TimePasses, Expired, Seconds
    <3>. QED
      BY <1>2, <3>1, <3>2
         DEF TokensNext, VerifyToken, ExecuteBash, CheckPermission, RecordCall, RevokeToken,
             CleanupTokens, tokenVars
  <2>2. MakeEntry(k, second) /\ issuedAt'[k] = second
    BY <1>0, <2>1 DEF IssueToken
  <2>3. /\ Len(entries') = Len(entries) + 1 /\ Len(entries) \in Nat
        /\ entries'[Len(entries')].token = k /\ entries'[Len(entries')].second = second
    BY <1>0, <2>2, NewEntryFields DEF Kept
  <2>. QED  BY <2>2, <2>3
<1>. QED  BY <1>1, <1>2

\* What a step does to one use.
StaysOrEnds(c) ==
  check'[c] = check[c] \/ check'[c] = Ended("unchecked") \/ check'[c] = Ended("denied")
Allowed(c) ==
  /\ check[c].at = "verified" /\ check'[c] = [check[c] EXCEPT !.at = "allowed"]
  /\ check[c].mode \subseteq ScopesOf[EntryOf(c).token]
Permitted(c) ==
  /\ check[c].at = "allowed" /\ check'[c] = [check[c] EXCEPT !.at = "permitted"]
  /\ RecordCall(c) /\ WithinLimit(check[c].entry)
Verified(c) == \E k \in Tokens, mode \in Modes : VerifyToken(c, k, mode)

LEMMA UseStep ==
  ASSUME TokensTypeOK, [TokensNext]_tokenVars, NEW c \in Checks
  PROVE  StaysOrEnds(c) \/ Allowed(c) \/ Permitted(c) \/ Verified(c)
<1>. USE DEF StaysOrEnds, Allowed, Permitted, Verified
<1>0. check \in [Checks -> UsesWith(Len(entries))]
  BY DEF TokensTypeOK, UsesWith
<1>1. ASSUME NEW d \in Checks, ExecuteBash(d)
      PROVE  StaysOrEnds(c)
  BY <1>0, <1>1 DEF ExecuteBash
<1>2. ASSUME NEW d \in Checks, CheckPermission(d)
      PROVE  StaysOrEnds(c) \/ Allowed(c)
  BY <1>0, <1>2 DEF CheckPermission
<1>3. ASSUME NEW d \in Checks, RecordCall(d)
      PROVE  StaysOrEnds(c) \/ Permitted(c)
  <2>1. CASE d = c
    BY <1>0, <1>3, <2>1 DEF RecordCall
  <2>2. CASE d # c
    BY <1>0, <1>3, <2>2 DEF RecordCall
  <2>. QED  BY <2>1, <2>2
<1>4. ASSUME NEW d \in Checks, NEW k \in Tokens, NEW mode \in Modes, VerifyToken(d, k, mode)
      PROVE  StaysOrEnds(c) \/ Verified(c)
  BY <1>0, <1>4 DEF VerifyToken, Seen
<1>5. CASE check' = check
  BY <1>5
<1>. QED
  BY <1>1, <1>2, <1>3, <1>4, <1>5
     DEF TokensNext, IssueToken, TimePasses, RevokeToken, CleanupTokens, tokenVars

LEMMA UseKept ==
  ASSUME TokensTypeOK, [TokensNext]_tokenVars, NEW c \in Checks, ~Verified(c),
         check'[c].at \in {"verified", "allowed", "permitted"}
  PROVE  /\ check[c].at \in {"verified", "allowed", "permitted"}
         /\ check'[c].token = check[c].token /\ check'[c].mode = check[c].mode
         /\ check'[c].entry = check[c].entry
         /\ check'[c] = check[c] \/ Allowed(c) \/ Permitted(c)
<1>1. Ended("unchecked").at = "unchecked" /\ Ended("denied").at = "denied"
  BY DEF Ended
<1>2. check'[c] = check[c] \/ Allowed(c) \/ Permitted(c)
  BY <1>1, UseStep DEF StaysOrEnds
<1>3. \A u \in UsesWith(Len(entries)), place \in {"allowed", "permitted"} :
        LET v == [u EXCEPT !.at = place]
        IN v.token = u.token /\ v.mode = u.mode /\ v.entry = u.entry
  BY DEF UsesWith
<1>4. check[c] \in UsesWith(Len(entries))
  BY DEF TokensTypeOK, UsesWith
<1>5. CASE check'[c] = check[c]
  BY <1>5
<1>6. CASE Allowed(c)
  BY <1>3, <1>4, <1>6 DEF Allowed
<1>7. CASE Permitted(c)
  BY <1>3, <1>4, <1>7 DEF Permitted
<1>. QED  BY <1>2, <1>5, <1>6, <1>7

LEMMA VerifiedEntry ==
  ASSUME TokensTypeOK, Linked, Issued, NEW c \in Checks, NEW k \in Tokens, NEW mode \in Modes,
         VerifyToken(c, k, mode)
  PROVE  /\ check'[c].at = "verified" /\ check'[c].token = {k}
         /\ check'[c].entry \in 1..Len(entries')
         /\ SubjectOf[entries'[check'[c].entry].token] = SubjectOf[k]
         /\ \E i \in 1..Len(entries') :
              entries'[i].token = k /\ entries'[i].second = entries'[check'[c].entry].second
<1>0. /\ check \in [Checks -> UsesWith(Len(entries))] /\ Len(entries) \in Nat
      /\ tracked \in [Subjects -> 0..Len(entries)] /\ SubjectOf[k] \in Subjects
  BY DEF TokensTypeOK, UsesWith, Subjects
<1>1. CASE KnownEntry(k) # {}
  <2>1. /\ entries' = entries /\ check'[c].at = "verified" /\ check'[c].token = {k}
        /\ check'[c].entry = tracked[SubjectOf[k]]
    BY <1>0, <1>1 DEF VerifyToken, Seen
  <2>2. /\ tracked[SubjectOf[k]] # 0
        /\ entries[tracked[SubjectOf[k]]].second = issuedAt[k]
    BY <1>1 DEF KnownEntry
  <2>3. PICK i \in 1..Len(entries) : entries[i].token = k /\ entries[i].second = issuedAt[k]
    BY DEF Issued, VerifyToken
  <2>. QED  BY <1>0, <2>1, <2>2, <2>3 DEF Linked
<1>2. CASE KnownEntry(k) = {}
  <2>1. /\ MakeEntry(k, issuedAt[k]) /\ issuedAt[k] \in Seconds
        /\ check'[c].at = "verified" /\ check'[c].token = {k}
        /\ check'[c].entry = Len(entries) + 1
    BY <1>0, <1>2 DEF VerifyToken, Seen
  <2>2. /\ Len(entries') = Len(entries) + 1 /\ entries'[Len(entries')].token = k
    BY <2>1, NewEntryFields
  <2>. QED  BY <1>0, <2>1, <2>2
<1>. QED  BY <1>1, <1>2

LEMMA ShownStep ==
  TokensTypeOK /\ Linked /\ Issued /\ Shown /\ [TokensNext]_tokenVars => Shown'
<1>. SUFFICES ASSUME TokensTypeOK, Linked, Issued, Shown, [TokensNext]_tokenVars,
                     NEW c \in Checks, check'[c].at \in {"verified", "allowed", "permitted"}
              PROVE  check'[c].entry # 0 /\ \E k \in Tokens : ShownBy(c, k)'
  BY DEF Shown
<1>0. /\ check[c] \in UsesWith(Len(entries)) /\ Kept
  BY EntriesKept DEF TokensTypeOK, UsesWith
<1>1. CASE Verified(c)
  <2>1. PICK k \in Tokens, mode \in Modes : VerifyToken(c, k, mode)
    BY <1>1 DEF Verified
  <2>2. /\ check'[c].token = {k} /\ check'[c].entry \in 1..Len(entries')
        /\ SubjectOf[entries'[check'[c].entry].token] = SubjectOf[k]
        /\ \E i \in 1..Len(entries') :
             entries'[i].token = k /\ entries'[i].second = entries'[check'[c].entry].second
    BY <2>1, VerifiedEntry
  <2>3. ShownBy(c, k)'
    BY <2>2 DEF ShownBy
  <2>. QED  BY <1>0, <2>2, <2>3 DEF Kept
<1>2. CASE ~Verified(c)
  <2>1. /\ check[c].at \in {"verified", "allowed", "permitted"}
        /\ check'[c].token = check[c].token /\ check'[c].entry = check[c].entry
    BY <1>2, UseKept
  <2>2. PICK k \in Tokens : ShownBy(c, k)
    BY <2>1 DEF Shown
  <2>3. check[c].entry \in 1..Len(entries)
    BY <1>0, <2>1 DEF Shown, UsesWith, Kept
  <2>4. ShownBy(c, k)'
    BY <1>0, <2>1, <2>2, <2>3 DEF ShownBy, Kept
  <2>. QED  BY <2>1, <2>3, <2>4 DEF Shown
<1>. QED  BY <1>1, <1>2

LEMMA ScopedStep ==
  TokensTypeOK /\ Linked /\ Issued /\ Shown /\ Scoped /\ [TokensNext]_tokenVars => Scoped'
<1>. SUFFICES ASSUME TokensTypeOK, Linked, Issued, Shown, Scoped, [TokensNext]_tokenVars,
                     NEW c \in Checks, check'[c].at \in {"allowed", "permitted"}
              PROVE  check'[c].mode \subseteq ScopesOf[entries'[check'[c].entry].token]
  BY DEF Scoped
<1>0. /\ check[c] \in UsesWith(Len(entries)) /\ Kept
  BY EntriesKept DEF TokensTypeOK, UsesWith
<1>1. ~Verified(c)
  BY VerifiedEntry DEF Verified
<1>2. /\ check[c].at \in {"verified", "allowed", "permitted"}
      /\ check'[c].mode = check[c].mode /\ check'[c].entry = check[c].entry
      /\ check[c].mode \subseteq ScopesOf[entries[check[c].entry].token]
  BY <1>1, UseKept DEF Allowed, Permitted, Scoped, EntryOf
<1>3. check[c].entry \in 1..Len(entries)
  BY <1>0, <1>2 DEF Shown, UsesWith, Kept
<1>. QED  BY <1>0, <1>2, <1>3 DEF Kept

LEMMA PermittedFinite == ASSUME NEW n PROVE IsFiniteSet(PermittedBy(n))
  BY TokenAssumption, FS_Subset DEF PermittedBy

LEMMA CountedStep ==
  TokensTypeOK /\ Linked /\ Issued /\ Shown /\ Counted /\ [TokensNext]_tokenVars => Counted'
<1>. SUFFICES ASSUME TokensTypeOK, Linked, Issued, Shown, Counted, [TokensNext]_tokenVars,
                     NEW n \in 1..Len(entries')
              PROVE  /\ Cardinality(PermittedBy(n)') <= entries'[n].count
                     /\ MaxCalls[entries'[n].token] > 0 =>
                          Cardinality(PermittedBy(n)') <= MaxCalls[entries'[n].token]
  BY DEF Counted
<1>0. /\ Kept
      /\ \A c \in Checks : check[c] \in UsesWith(Len(entries))
      /\ entries \in Seq([token : Tokens, second : Seconds, count : Nat])
  BY EntriesKept DEF TokensTypeOK, UsesWith
<1>1. \A c \in Checks : c \in PermittedBy(n)' =>
        c \in PermittedBy(n) \/ (Permitted(c) /\ check[c].entry = n)
  <2>. SUFFICES ASSUME NEW c \in Checks, check'[c].at = "permitted", check'[c].entry = n
                PROVE  c \in PermittedBy(n) \/ (Permitted(c) /\ check[c].entry = n)
    BY DEF PermittedBy
  <2>1. ~Verified(c)
    BY VerifiedEntry DEF Verified
  <2>2. /\ check[c].entry = n
        /\ check'[c] = check[c] \/ Allowed(c) \/ Permitted(c)
    BY <2>1, UseKept
  <2>3. ~Allowed(c)
    <3>1. \A u \in UsesWith(Len(entries)) : [u EXCEPT !.at = "allowed"].at = "allowed"
      BY DEF UsesWith
    <3>. QED  BY <1>0, <3>1 DEF Allowed
  <2>. QED  BY <2>2, <2>3 DEF PermittedBy
\* An entry that was just made has no uses.
<1>2. CASE n \notin 1..Len(entries)
  <2>1. PermittedBy(n)' = {}
    <3>1. \A c \in Checks : check[c].entry # n
      BY <1>0, <1>2 DEF UsesWith, Kept
    <3>. QED  BY <1>1, <3>1 DEF PermittedBy
  <2>2. entries'[n].count \in Nat /\ MaxCalls[entries'[n].token] \in Nat
    <3>1. TokensTypeOK'
      BY TypeStep
    <3>2. entries' \in Seq([token : Tokens, second : Seconds, count : Nat])
      BY <3>1 DEF TokensTypeOK
    <3>3. entries'[n] \in [token : Tokens, second : Seconds, count : Nat]
      BY <3>2, ElementOf
    <3>. QED  BY <3>3, TokenAssumption
  <2>. QED  BY <2>1, <2>2, FS_EmptySet
<1>3. CASE n \in 1..Len(entries)
  <2>a. entries[n] \in [token : Tokens, second : Seconds, count : Nat]
    BY <1>0, <1>3, ElementOf
  <2>b. entries[n].token \in Tokens /\ entries[n].count \in Nat
    BY <2>a
  <2>c. Cardinality(PermittedBy(n)) \in Nat
    BY PermittedFinite, FS_CardinalityType
  <2>0. /\ entries[n].count \in Nat
        /\ entries'[n].token = entries[n].token
        /\ Cardinality(PermittedBy(n)) \in Nat
        /\ Cardinality(PermittedBy(n)) <= entries[n].count
        /\ MaxCalls[entries[n].token] \in Nat
        /\ MaxCalls[entries[n].token] > 0 =>
             Cardinality(PermittedBy(n)) <= MaxCalls[entries[n].token]
    BY <1>0, <1>3, <2>b, <2>c, TokenAssumption DEF Kept, Counted
  <2>1. entries'[n].count \in Nat /\ entries'[n].count >= entries[n].count
    <3>1. ASSUME NEW c \in Checks, RecordCall(c)
          PROVE  entries'[n].count \in Nat /\ entries'[n].count >= entries[n].count
      <4>1. entries' = [entries EXCEPT ![check[c].entry].count = @ + 1]
        BY <3>1 DEF RecordCall
      <4>2. entries'[n].count = IF n = check[c].entry THEN entries[n].count + 1 ELSE entries[n].count
        BY <1>0, <1>3, <4>1, OneMoreCall
      <4>. QED  BY <2>0, <4>2
    <3>2. CASE entries'[n] = entries[n]
      BY <2>0, <3>2
    <3>3. ASSUME NEW k \in Tokens, NEW second \in Seconds, MakeEntry(k, second)
          PROVE  entries'[n] = entries[n]
      BY <1>3, <3>3, NewEntryFields
    <3>4. ASSUME NEW c \in Checks, NEW k \in Tokens, NEW mode \in Modes, VerifyToken(c, k, mode)
          PROVE  entries'[n] = entries[n]
      <4>1. issuedAt[k] \in Seconds /\ (entries' = entries \/ MakeEntry(k, issuedAt[k]))
        BY <3>4 DEF VerifyToken
      <4>. QED  BY <3>3, <4>1
    <3>. QED
      BY <3>1, <3>2, <3>3, <3>4
         DEF TokensNext, IssueToken, TimePasses, ExecuteBash, CheckPermission, RevokeToken,
             CleanupTokens, tokenVars
  <2>2. CASE \A c \in Checks : ~(Permitted(c) /\ check[c].entry = n)
    <3>1. PermittedBy(n)' \subseteq PermittedBy(n)
      BY <1>1, <2>2 DEF PermittedBy
    <3>2. /\ Cardinality(PermittedBy(n)') <= Cardinality(PermittedBy(n))
          /\ Cardinality(PermittedBy(n)') \in Nat
      BY <3>1, PermittedFinite, FS_Subset, FS_CardinalityType
    <3>. QED  BY <2>0, <2>1, <3>2
  <2>3. ASSUME NEW c \in Checks, Permitted(c), check[c].entry = n
        PROVE  /\ Cardinality(PermittedBy(n)') <= entries'[n].count
               /\ MaxCalls[entries'[n].token] > 0 =>
                    Cardinality(PermittedBy(n)') <= MaxCalls[entries'[n].token]
    <3>1. /\ entries' = [entries EXCEPT ![check[c].entry].count = @ + 1]
          /\ \A d \in Checks : d # c => check'[d] = check[d]
          /\ MaxCalls[entries[n].token] > 0 => entries[n].count < MaxCalls[entries[n].token]
      BY <1>0, <2>3 DEF Permitted, RecordCall, WithinLimit
    <3>2. entries'[n].count = entries[n].count + 1
      BY <1>0, <1>3, <2>3, <3>1, OneMoreCall
    <3>3. PermittedBy(n)' \subseteq PermittedBy(n) \cup {c}
      BY <3>1 DEF PermittedBy
    <3>a. IsFiniteSet(PermittedBy(n) \cup {c})
      BY PermittedFinite, FS_AddElement
    <3>b. Cardinality(PermittedBy(n) \cup {c}) \in Nat
      BY <3>a, FS_CardinalityType
    <3>c. Cardinality(PermittedBy(n) \cup {c}) =
            IF c \in PermittedBy(n) THEN Cardinality(PermittedBy(n))
                                    ELSE Cardinality(PermittedBy(n)) + 1
      <4>. DEFINE P == PermittedBy(n)
      <4>1. IsFiniteSet(P)
        BY PermittedFinite
      <4>. HIDE DEF P
      <4>2. Cardinality(P \cup {c}) = IF c \in P THEN Cardinality(P) ELSE Cardinality(P) + 1
        BY <4>1, FS_AddElement
      <4>. QED  BY <4>2 DEF P
    <3>4. /\ Cardinality(PermittedBy(n) \cup {c}) <= Cardinality(PermittedBy(n)) + 1
          /\ IsFiniteSet(PermittedBy(n) \cup {c})
          /\ Cardinality(PermittedBy(n) \cup {c}) \in Nat
      BY <2>0, <3>a, <3>b, <3>c
    <3>5. /\ Cardinality(PermittedBy(n)') <= Cardinality(PermittedBy(n) \cup {c})
          /\ Cardinality(PermittedBy(n)') \in Nat
      BY <3>3, <3>4, FS_Subset, FS_CardinalityType
    <3>. QED  BY <2>0, <3>1, <3>2, <3>4, <3>5
  <2>. QED  BY <2>2, <2>3
<1>. QED  BY <1>2, <1>3

LEMMA TokensInvInit == TokensInit => TokensInv
<1>. SUFFICES ASSUME TokensInit
              PROVE  TokensInv
  OBVIOUS
<1>1. Linked /\ Issued /\ Counted
  BY DEF TokensInit, Linked, Issued, Counted, Seconds
<1>2. \A c \in Checks : check[c].at = "new"
  BY DEF TokensInit, Ended
<1>3. Shown /\ Scoped
  BY <1>2 DEF Shown, Scoped
<1>. QED  BY TypeInit, <1>1, <1>3 DEF TokensInv

LEMMA TokensInvStep == TokensInv /\ [TokensNext]_tokenVars => TokensInv'
  BY TypeStep, LinkedStep, IssuedStep, ShownStep, ScopedStep, CountedStep DEF TokensInv

-----------------------------------------------------------------------------
(* The limit of a token *)

PermittedTo(k) == {c \in Checks : check[c].at = "permitted" /\ check[c].token = {k}}
MadeFor(k) == {n \in 1..Len(entries) : entries[n].token = k}

\* Without a twin, a token is used with its own entries.
LEMMA OwnEntry ==
  ASSUME TokensInv, NEW k \in Tokens, ~Twin(k), NEW c \in PermittedTo(k)
  PROVE  check[c].entry \in MadeFor(k)
<1>1. /\ c \in Checks /\ check[c].at = "permitted" /\ check[c].token = {k}
      /\ check[c] \in UsesWith(Len(entries)) /\ Len(entries) \in Nat
  BY DEF PermittedTo, TokensInv, TokensTypeOK, UsesWith
<1>2. check[c].entry \in 1..Len(entries)
  BY <1>1 DEF TokensInv, Shown, UsesWith
<1>3. ShownBy(c, k)
  BY <1>1, ZenonT(40) DEF TokensInv, Shown, ShownBy
<1>4. entries[check[c].entry].token = k
  BY <1>2, <1>3 DEF ShownBy, Twin
<1>. QED  BY <1>2, <1>4 DEF MadeFor

\* The sets that are counted are finite.
LEMMA FiniteUses ==
  ASSUME TokensInv, NEW k \in Tokens
  PROVE  IsFiniteSet(PermittedTo(k)) /\ IsFiniteSet(MadeFor(k))
<1>1. IsFiniteSet(PermittedTo(k))
  BY TokenAssumption, FS_Subset DEF PermittedTo
<1>2. IsFiniteSet(1..Len(entries))
  BY FS_Interval DEF TokensInv, TokensTypeOK
<1>3. IsFiniteSet(MadeFor(k))
  BY <1>2, FS_Subset DEF MadeFor
<1>. QED  BY <1>1, <1>3

\* The permitted uses of an entry can be numbered up to the limit of its token.
LEMMA UsesNumbered ==
  ASSUME TokensInv, NEW k \in Tokens, MaxCalls[k] > 0, NEW n \in MadeFor(k)
  PROVE  \E f : f \in Injection(PermittedBy(n), 1..MaxCalls[k])
<1>. DEFINE P == PermittedBy(n)
<1>1. IsFiniteSet(P)
  BY PermittedFinite
<1>2. Cardinality(P) <= MaxCalls[k] /\ MaxCalls[k] \in Nat
  BY TokenAssumption DEF TokensInv, Counted, MadeFor
<1>. HIDE DEF P
<1>3. PICK m \in Nat : ExistsBijection(1..m, P)
  BY <1>1, FS_NatBijection
<1>4. m <= MaxCalls[k]
  BY <1>2, <1>3, FS_CountingElements
<1>5. ExistsBijection(P, 1..m)
  BY <1>3, Fun_ExistsBijSymmetric
<1>6. PICK f \in Bijection(P, 1..m) : TRUE
  BY <1>5 DEF ExistsBijection
<1>7. f \in Injection(P, 1..MaxCalls[k])
  BY <1>2, <1>4, <1>6 DEF Bijection, Injection, IsInjective
<1>. QED  BY <1>7 DEF P

LEMMA LimitHolds ==
  ASSUME TokensInv, NEW k \in Tokens, ~Twin(k), MaxCalls[k] > 0
  PROVE  Cardinality(PermittedTo(k)) <= MaxCalls[k] * Cardinality(MadeFor(k))
<1>. DEFINE M == MadeFor(k)
            U == PermittedTo(k)
            L == 1..MaxCalls[k]
            num == [n \in M |-> CHOOSE f : f \in Injection(PermittedBy(n), L)]
            place == [c \in U |-> <<check[c].entry, num[check[c].entry][c]>>]
<1>1. MaxCalls[k] \in Nat
  BY TokenAssumption
<1>2. \A n \in M : num[n] \in Injection(PermittedBy(n), L)
  BY UsesNumbered
<1>3. \A c \in U : check[c].entry \in M /\ c \in PermittedBy(check[c].entry)
  BY OwnEntry DEF PermittedTo, PermittedBy
<1>4. \A n \in M : /\ \A c \in PermittedBy(n) : num[n][c] \in L
                   /\ \A c, d \in PermittedBy(n) : num[n][c] = num[n][d] => c = d
  <2>. HIDE DEF num, M, L
  <2>. QED  BY <1>2 DEF Injection, IsInjective
<1>5. \A c \in U : place[c] \in M \X L
  <2>. HIDE DEF num, M, L, U
  <2>. QED  BY <1>3, <1>4
<1>6. ASSUME NEW c \in U, NEW d \in U, place[c] = place[d]
      PROVE  c = d
  <2>. HIDE DEF num, M, L, U
  <2>1. check[c].entry = check[d].entry
    BY <1>6
  <2>2. num[check[c].entry][c] = num[check[c].entry][d]
    BY <1>6, <2>1
  <2>. QED  BY <1>3, <1>4, <2>1, <2>2
<1>7. place \in Injection(U, M \X L)
  <2>1. place \in [U -> M \X L]
    <3>. HIDE DEF M, L, num, U
    <3>. QED  BY <1>5
  <2>. HIDE DEF place, M, L, U
  <2>. QED  BY <1>6, <2>1 DEF Injection, IsInjective
<1>8. IsFiniteSet(M) /\ IsFiniteSet(L) /\ Cardinality(L) = MaxCalls[k]
  <2>1. IsFiniteSet(M)
    BY FiniteUses
  <2>2. IsFiniteSet(L)
    BY <1>1, FS_Interval
  <2>3. Cardinality(L) = IF 1 > MaxCalls[k] THEN 0 ELSE MaxCalls[k] - 1 + 1
    BY <1>1, FS_Interval
  <2>4. Cardinality(L) = MaxCalls[k]
    <3>. HIDE DEF L
    <3>. QED  BY <1>1, <2>3
  <2>. QED  BY <2>1, <2>2, <2>4
<1>9. Cardinality(M) \in Nat
  BY <1>8, FS_CardinalityType
<1>10. IsFiniteSet(M \X L) /\ Cardinality(M \X L) = Cardinality(M) * MaxCalls[k]
  <2>. HIDE DEF M, L
  <2>. QED  BY <1>8, FS_Product
<1>11. Cardinality(U) <= Cardinality(M \X L)
  <2>. HIDE DEF M, L, U, place
  <2>. QED  BY <1>7, <1>10, FS_Injection
<1>12. Cardinality(U) <= MaxCalls[k] * Cardinality(M)
  <2>1. Cardinality(M) * MaxCalls[k] = MaxCalls[k] * Cardinality(M)
    <3>. HIDE DEF M
    <3>. QED  BY <1>1, <1>9
  <2>. HIDE DEF M, U
  <2>. QED  BY <1>10, <1>11, <2>1
<1>. QED  BY <1>12

LEMMA TokensInvImplies == TokensInv => CallLimit
<1>. SUFFICES ASSUME TokensInv, NEW k \in Tokens, ~Twin(k)
              PROVE  /\ MaxCalls[k] > 0 =>
                          Cardinality(PermittedTo(k)) <= MaxCalls[k] * Cardinality(MadeFor(k))
                     /\ \A c \in PermittedTo(k) : check[c].mode \subseteq ScopesOf[k]
  BY DEF CallLimit, PermittedTo, MadeFor
<1>1. \A c \in PermittedTo(k) : check[c].mode \subseteq ScopesOf[k]
  <2>. SUFFICES ASSUME NEW c \in PermittedTo(k)
                PROVE  check[c].mode \subseteq ScopesOf[k]
    OBVIOUS
  <2>1. c \in Checks /\ check[c].at = "permitted"
    BY DEF PermittedTo
  <2>2. entries[check[c].entry].token = k
    BY OwnEntry DEF MadeFor
  <2>. QED  BY <2>1, <2>2 DEF TokensInv, Scoped
<1>. QED  BY <1>1, LimitHolds

\* A token permits at most max_calls calls for each entry made for it, and only
\* modes that its scopes name, however its checks interleave with others, with
\* revocations, new tokens and the cleanup.
THEOREM TokensWithinLimit == TokensSpec => []CallLimit
  BY TokensInvInit, TokensInvStep, TokensInvImplies, PTL DEF TokensSpec

-----------------------------------------------------------------------------
(***************************************************************************)
(* Proofs about the tables of executors, for any number of calls, threads  *)
(* and executors and any number of failing accesses.                       *)
(*                                                                         *)
(* One executor works on a thread because of what holds from the check of  *)
(* a spawn to the insertion of its handle, while no lock is held: nobody   *)
(* else spawns for the thread (OneSpawn), and nothing works on it until    *)
(* this call starts its task (NothingYet).                                 *)
(***************************************************************************)

Spawning == {"creating", "inserting"}
Works(e, t) == execTask[e] = "running" /\ owner[e] = {t}
SpawnsFor(c, t) == call[c].at \in Spawning /\ call[c].thread = {t}

\* A thread enters the table after its directory was made.
EntersStored == \A c \in Calls : call[c].at = "entering" => call[c].thread \subseteq onDisk

OneSpawn ==
  \A t \in KThreads \ excused : \A c, d \in Calls :
    SpawnsFor(c, t) /\ SpawnsFor(d, t) => c = d

NothingYet ==
  \A t \in KThreads \ excused : \A c \in Calls :
    call[c].at = "creating" /\ call[c].thread = {t} => \A e \in Executors : ~Works(e, t)

\* What works is in the table as running, or about to be.
WorkIsSeen ==
  \A t \in KThreads \ excused : \A e \in Executors : Works(e, t) =>
    \/ executors[e] = "Running"
    \/ \E c \in Calls : call[c].at = "inserting" /\ call[c].thread = {t} /\ call[c].executor = {e}

OneWorks ==
  \A t \in KThreads \ excused : \A e, f \in Executors : Works(e, t) /\ Works(f, t) => e = f

-----------------------------------------------------------------------------
(* Types *)

Places == {"idle", "entering", "checking", "creating", "inserting", "marking", "updating",
           "killing", "pausing", "counting", "returned", "dropped"}
CallForms == [at : Places, thread : SUBSET KThreads, executor : SUBSET Executors]
LockForms == [readers : SUBSET Calls, writers : SUBSET Calls]

LEMMA RegistryTypes ==
  RegistryTypeOK <=>
    /\ call \in [Calls -> CallForms]
    /\ onDisk \subseteq KThreads /\ threads \subseteq onDisk
    /\ executors \in [Executors -> {Absent, "Running", "Paused", "Error"}]
    /\ execTask \in [Executors -> {"none", "running", "ended", "aborted"}]
    /\ owner \in [Executors -> SUBSET KThreads]
    /\ tLock \in LockForms /\ eLock \in LockForms
    /\ errors \in 0..MaxErrors /\ excused \subseteq KThreads
  BY DEF RegistryTypeOK, CallForms, Places, LockForms

\* A call that goes on keeps what it is about; one that begins sets it.
LEMMA CallForm ==
  ASSUME call \in [Calls -> CallForms], NEW c \in Calls, NEW place \in Places
  PROVE  /\ Goto(c, place) =>
              /\ call' \in [Calls -> CallForms] /\ call'[c].at = place
              /\ call'[c].thread = call[c].thread /\ call'[c].executor = call[c].executor
              /\ \A d \in Calls : d # c => call'[d] = call[d]
         /\ \A t \in SUBSET KThreads, e \in SUBSET Executors : Begin(c, place, t, e) =>
              /\ call' \in [Calls -> CallForms] /\ call[c].at = "idle" /\ call'[c].at = place
              /\ call'[c].thread = t /\ call'[c].executor = e
              /\ \A d \in Calls : d # c => call'[d] = call[d]
<1>1. ASSUME Goto(c, place)
      PROVE  /\ call' \in [Calls -> CallForms] /\ call'[c].at = place
             /\ call'[c].thread = call[c].thread /\ call'[c].executor = call[c].executor
             /\ \A d \in Calls : d # c => call'[d] = call[d]
  <2>1. /\ call' = [call EXCEPT ![c].at = place] /\ call[c] \in CallForms
    BY <1>1 DEF Goto
  <2>2. LET f == [call[c] EXCEPT !.at = place]
        IN f \in CallForms /\ f.at = place /\ f.thread = call[c].thread /\ f.executor = call[c].executor
    BY <2>1 DEF CallForms
  <2>3. call' \in [Calls -> CallForms]
    BY <2>1, <2>2
  <2>. QED  BY <2>1, <2>2, <2>3
<1>2. ASSUME NEW t \in SUBSET KThreads, NEW e \in SUBSET Executors, Begin(c, place, t, e)
      PROVE  /\ call' \in [Calls -> CallForms] /\ call[c].at = "idle" /\ call'[c].at = place
             /\ call'[c].thread = t /\ call'[c].executor = e
             /\ \A d \in Calls : d # c => call'[d] = call[d]
  <2>. DEFINE f == [at |-> place, thread |-> t, executor |-> e]
  <2>1. f \in CallForms /\ f.at = place /\ f.thread = t /\ f.executor = e
    BY DEF CallForms
  <2>2. call' = [call EXCEPT ![c] = f] /\ call[c].at = "idle"
    BY <1>2 DEF Begin
  <2>. HIDE DEF f
  <2>. QED  BY <2>1, <2>2
<1>. QED  BY <1>1, <1>2

LEMMA RegistryTypeInit == RegistryInit => RegistryTypeOK /\ EntersStored
<1>. SUFFICES ASSUME RegistryInit
              PROVE  RegistryTypeOK /\ EntersStored
  OBVIOUS
<1>1. call \in [Calls -> CallForms] /\ EntersStored
  BY DEF RegistryInit, CallForms, Places, EntersStored
<1>2. tLock \in LockForms /\ eLock \in LockForms
  BY DEF RegistryInit, LockForms, Unlocked
<1>. QED  BY <1>1, <1>2, RegistryTypes, RegistryAssumption DEF RegistryInit

\* Taking a lock, and letting go of it.
LEMMA LockForm ==
  ASSUME NEW l \in LockForms, NEW c \in Calls
  PROVE  /\ Unlocked \in LockForms
         /\ [l EXCEPT !.writers = {c}] \in LockForms
         /\ [l EXCEPT !.readers = @ \cup {c}] \in LockForms
         /\ [l EXCEPT !.readers = @ \ {c}] \in LockForms
         /\ [readers |-> l.readers \ {c}, writers |-> l.writers \ {c}] \in LockForms
  BY DEF LockForms, Unlocked

\* What the actions do to one call.
CallMoves(c) ==
  /\ call' \in [Calls -> CallForms]
  /\ \A d \in Calls : d # c => call'[d] = call[d]

LEMMA RegistryTypeStep ==
  RegistryTypeOK /\ EntersStored /\ [RegistryNext]_registryVars => RegistryTypeOK' /\ EntersStored'
<1>. SUFFICES ASSUME RegistryTypeOK, EntersStored, [RegistryNext]_registryVars
              PROVE  RegistryTypeOK' /\ EntersStored'
  OBVIOUS
<1>0. /\ call \in [Calls -> CallForms]
      /\ onDisk \subseteq KThreads /\ threads \subseteq onDisk
      /\ executors \in [Executors -> {Absent, "Running", "Paused", "Error"}]
      /\ execTask \in [Executors -> {"none", "running", "ended", "aborted"}]
      /\ owner \in [Executors -> SUBSET KThreads]
      /\ tLock \in LockForms /\ eLock \in LockForms
      /\ errors \in 0..MaxErrors /\ excused \subseteq KThreads
      /\ \A c \in Calls : /\ call[c].thread \subseteq KThreads
                          /\ call[c].executor \subseteq Executors
  BY RegistryTypes DEF CallForms
<1>. DEFINE Goal ==
       /\ call' \in [Calls -> CallForms]
       /\ onDisk' \subseteq KThreads /\ threads' \subseteq onDisk'
       /\ executors' \in [Executors -> {Absent, "Running", "Paused", "Error"}]
       /\ execTask' \in [Executors -> {"none", "running", "ended", "aborted"}]
       /\ owner' \in [Executors -> SUBSET KThreads]
       /\ tLock' \in LockForms /\ eLock' \in LockForms
       /\ errors' \in 0..MaxErrors /\ excused' \subseteq KThreads
       /\ EntersStored'
<1>a. SUFFICES Goal
  BY RegistryTypes DEF RegistryTypeOK, CallForms, Places, LockForms
\* A call that is not about to enter a thread does not disturb EntersStored.
<1>b. ASSUME NEW c \in Calls, CallMoves(c), onDisk \subseteq onDisk',
             call'[c].at = "entering" => call'[c].thread \subseteq onDisk'
      PROVE  call' \in [Calls -> CallForms] /\ EntersStored'
  BY <1>b DEF EntersStored, CallMoves
<1>c. ASSUME NEW c \in Calls, NEW place \in Places \ {"entering"}, Goto(c, place),
             onDisk \subseteq onDisk'
      PROVE  call' \in [Calls -> CallForms] /\ EntersStored'
  BY <1>0, <1>b, <1>c, CallForm DEF CallMoves
<1>d. ASSUME NEW c \in Calls, NEW place \in Places \ {"entering"},
             NEW t \in SUBSET KThreads, NEW e \in SUBSET Executors, Begin(c, place, t, e),
             onDisk \subseteq onDisk'
      PROVE  call' \in [Calls -> CallForms] /\ EntersStored'
  <2>1. place \in Places
    BY <1>d
  <2>2. CallMoves(c) /\ call'[c].at = place
    BY <1>0, <1>d, <2>1, CallForm DEF CallMoves
  <2>3. place # "entering"
    BY <1>d
  <2>. QED  BY <1>b, <1>d, <2>2, <2>3
<1>e. ASSUME NEW c \in Calls, AccessFails(c), onDisk \subseteq onDisk'
      PROVE  call' \in [Calls -> CallForms] /\ EntersStored' /\ errors' \in 0..MaxErrors
  <2>1. Goto(c, "returned") /\ errors < MaxErrors /\ errors' = errors + 1
    BY <1>e DEF AccessFails, Return
  <2>2. "returned" \in Places \ {"entering"}
    BY DEF Places
  <2>3. errors' \in 0..MaxErrors
    BY <1>0, <2>1, RegistryAssumption
  <2>. QED  BY <1>c, <1>e, <2>1, <2>2, <2>3
<1>1. ASSUME NEW c \in Calls, NEW t \in KThreads, CreateThread(c, t)
      PROVE  Goal
  <2>1. /\ onDisk' = onDisk \cup {t}
        /\ UNCHANGED <<threads, executors, execTask, owner, tLock, eLock, excused>>
    BY <1>1 DEF CreateThread
  <2>2. CASE Begin(c, "entering", {t}, {}) /\ UNCHANGED errors
    <3>1. "entering" \in Places /\ {t} \in SUBSET KThreads /\ {} \in SUBSET Executors
      BY DEF Places
    <3>2. CallMoves(c) /\ call'[c].thread = {t}
      BY <1>0, <2>2, <3>1, CallForm DEF CallMoves
    <3>3. call' \in [Calls -> CallForms] /\ EntersStored'
      BY <1>b, <2>1, <3>2
    <3>. QED  BY <1>0, <2>1, <2>2, <3>3
  <2>3. CASE AccessFails(c)
    BY <1>0, <1>e, <2>1, <2>3
  <2>. QED  BY <1>1, <2>2, <2>3 DEF CreateThread
<1>2. ASSUME NEW c \in Calls, EnterThread(c)
      PROVE  Goal
  <2>1. /\ call[c].at = "entering" /\ threads' = threads \cup call[c].thread
        /\ Goto(c, "returned") /\ "returned" \in Places \ {"entering"}
        /\ UNCHANGED <<onDisk, executors, execTask, owner, tLock, eLock, errors, excused>>
    BY <1>2 DEF EnterThread, Return, Places
  <2>2. call' \in [Calls -> CallForms] /\ EntersStored'
    BY <1>c, <2>1
  <2>. QED  BY <1>0, <2>1, <2>2 DEF EntersStored
<1>3. ASSUME NEW c \in Calls, NEW t \in KThreads, BeginSpawn(c, t)
      PROVE  Goal
  <2>1. /\ Begin(c, "checking", {t}, {}) /\ "checking" \in Places \ {"entering"}
        /\ {t} \in SUBSET KThreads /\ {} \in SUBSET Executors
        /\ UNCHANGED <<tables, tLock, eLock, errors, excused>>
    BY <1>3 DEF BeginSpawn, Places
  <2>2. call' \in [Calls -> CallForms] /\ EntersStored'
    BY <1>d, <2>1 DEF tables
  <2>. QED  BY <1>0, <2>1, <2>2 DEF tables
<1>4. ASSUME NEW c \in Calls, SpawnChecks(c)
      PROVE  Goal
  <2>1. /\ Goto(c, "creating") \/ Goto(c, "returned")
        /\ {"creating", "returned"} \subseteq Places \ {"entering"}
        /\ UNCHANGED <<tables, tLock, eLock, errors>>
        /\ excused' \subseteq KThreads
    BY <1>0, <1>4 DEF SpawnChecks, Return, Places
  <2>2. call' \in [Calls -> CallForms] /\ EntersStored'
    BY <1>c, <2>1 DEF tables
  <2>. QED  BY <1>0, <2>1, <2>2 DEF tables
<1>5. ASSUME NEW c \in Calls, CreateFails(c)
      PROVE  Goal
  <2>1. AccessFails(c) /\ UNCHANGED <<tables, tLock, eLock, excused>>
    BY <1>5 DEF CreateFails
  <2>. QED  BY <1>0, <1>e, <2>1 DEF tables
<1>6. ASSUME NEW c \in Calls, SpawnTask(c)
      PROVE  Goal
  <2>. DEFINE e == CHOOSE x \in Fresh : TRUE
  <2>1. /\ call' = [call EXCEPT ![c].at = "inserting", ![c].executor = {e}]
        /\ execTask' = [execTask EXCEPT ![e] = "running"]
        /\ owner' = [owner EXCEPT ![e] = call[c].thread]
        /\ e \in Executors
        /\ UNCHANGED <<onDisk, threads, executors, tLock, eLock, errors, excused>>
    BY <1>6 DEF SpawnTask, Fresh
  <2>. HIDE DEF e
  <2>2. CallMoves(c) /\ call'[c].at = "inserting"
    <3>1. LET f == [[call[c] EXCEPT !.at = "inserting"] EXCEPT !.executor = {e}]
          IN f \in CallForms /\ f.at = "inserting"
      BY <1>0, <2>1 DEF CallForms, Places
    <3>2. call' = [call EXCEPT ![c] = [[call[c] EXCEPT !.at = "inserting"] EXCEPT !.executor = {e}]]
      BY <1>0, <2>1
    <3>. QED  BY <1>0, <3>1, <3>2 DEF CallMoves
  <2>3. call' \in [Calls -> CallForms] /\ EntersStored'
    BY <1>b, <2>1, <2>2
  <2>. QED  BY <1>0, <2>1, <2>3
<1>7. ASSUME NEW c \in Calls, InsertHandle(c)
      PROVE  Goal
  <2>1. /\ Goto(c, "marking") /\ "marking" \in Places \ {"entering"}
        /\ executors' = [e \in Executors |-> IF e \in call[c].executor THEN "Running" ELSE executors[e]]
        /\ UNCHANGED <<onDisk, threads, execTask, owner, tLock, eLock, errors, excused>>
    BY <1>7 DEF InsertHandle, Places
  <2>2. call' \in [Calls -> CallForms] /\ EntersStored'
    BY <1>c, <2>1
  <2>. QED  BY <1>0, <2>1, <2>2
\* Steps that touch the locks and one call.
<1>8. ASSUME NEW c \in Calls, MarkThread(c) \/ SpawnReturns(c) \/ KillMarks(c) \/ KillReturns(c)
                               \/ ReadExecutors(c)
      PROVE  Goal
  <2>1. /\ UNCHANGED <<tables, excused>>
        /\ tLock' \in LockForms /\ eLock' \in LockForms
        /\ \/ Goto(c, "updating") /\ UNCHANGED errors
           \/ Goto(c, "returned") /\ UNCHANGED errors
           \/ Goto(c, "pausing") /\ UNCHANGED errors
           \/ AccessFails(c)
    BY <1>0, <1>8, LockForm
       DEF MarkThread, SpawnReturns, KillMarks, KillReturns, ReadExecutors, Return
  <2>2. {"updating", "returned", "pausing"} \subseteq Places \ {"entering"}
    BY DEF Places
  <2>3. call' \in [Calls -> CallForms] /\ EntersStored' /\ errors' \in 0..MaxErrors
    BY <1>0, <1>c, <1>e, <2>1, <2>2 DEF tables
  <2>. QED  BY <1>0, <2>1, <2>3 DEF tables
<1>9. ASSUME NEW c \in Calls, NEW e \in Executors, NEW state \in {"Paused", "Running", "Error"},
             ControlExecutor(c, e, state)
      PROVE  Goal
  <2>1. /\ Begin(c, "returned", {}, {}) /\ "returned" \in Places \ {"entering"}
        /\ {} \in SUBSET KThreads /\ {} \in SUBSET Executors
        /\ executors' = [executors EXCEPT ![e] = state]
        /\ excused' \subseteq KThreads
        /\ UNCHANGED <<onDisk, threads, execTask, owner, tLock, eLock, errors>>
    BY <1>0, <1>9 DEF ControlExecutor, Places
  <2>2. call' \in [Calls -> CallForms] /\ EntersStored'
    BY <1>d, <2>1
  <2>. QED  BY <1>0, <2>1, <2>2
<1>10. ASSUME NEW c \in Calls, NEW e \in Executors, KillExecutor(c, e)
       PROVE  Goal
  <2>1. /\ Begin(c, "killing", owner[e], {e}) /\ "killing" \in Places \ {"entering"}
        /\ owner[e] \in SUBSET KThreads /\ {e} \in SUBSET Executors
        /\ executors' = [executors EXCEPT ![e] = Absent]
        /\ execTask' = Aborted({e})
        /\ eLock' \in LockForms
        /\ UNCHANGED <<onDisk, threads, owner, tLock, errors, excused>>
    BY <1>0, <1>10, LockForm DEF KillExecutor, Places
  <2>2. call' \in [Calls -> CallForms] /\ EntersStored'
    BY <1>d, <2>1
  <2>3. execTask' \in [Executors -> {"none", "running", "ended", "aborted"}]
    BY <1>0, <2>1 DEF Aborted
  <2>. QED  BY <1>0, <2>1, <2>2, <2>3
<1>11. ASSUME NEW c \in Calls, ReadThreads(c)
       PROVE  Goal
  <2>1. /\ Begin(c, "counting", {}, {}) /\ "counting" \in Places \ {"entering"}
        /\ {} \in SUBSET KThreads /\ {} \in SUBSET Executors
        /\ tLock' \in LockForms
        /\ UNCHANGED <<tables, eLock, errors, excused>>
    BY <1>0, <1>11, LockForm DEF ReadThreads, Places
  <2>2. call' \in [Calls -> CallForms] /\ EntersStored'
    BY <1>d, <2>1 DEF tables
  <2>. QED  BY <1>0, <2>1, <2>2 DEF tables
<1>12. ASSUME NEW c \in Calls, ShutdownExecutors(c)
       PROVE  Goal
  <2>1. /\ Begin(c, "returned", {}, {}) /\ "returned" \in Places \ {"entering"}
        /\ {} \in SUBSET KThreads /\ {} \in SUBSET Executors
        /\ executors' = [e \in Executors |-> Absent]
        /\ execTask' = Aborted({e \in Executors : executors[e] # Absent})
        /\ UNCHANGED <<onDisk, threads, owner, tLock, eLock, errors, excused>>
    BY <1>12 DEF ShutdownExecutors, Places
  <2>2. call' \in [Calls -> CallForms] /\ EntersStored'
    BY <1>d, <2>1
  <2>3. execTask' \in [Executors -> {"none", "running", "ended", "aborted"}]
    BY <1>0, <2>1 DEF Aborted
  <2>. QED  BY <1>0, <2>1, <2>2, <2>3
<1>13. ASSUME NEW e \in Executors, TaskEnds(e)
       PROVE  Goal
  <2>1. /\ execTask' = [execTask EXCEPT ![e] = "ended"]
        /\ UNCHANGED <<call, onDisk, threads, executors, owner, tLock, eLock, errors, excused>>
    BY <1>13 DEF TaskEnds
  <2>2. EntersStored'
    BY <2>1 DEF EntersStored
  <2>. QED  BY <1>0, <2>1, <2>2
<1>14. ASSUME NEW c \in Calls, DropCall(c)
       PROVE  Goal
  <2>1. /\ Goto(c, "dropped") /\ "dropped" \in Places \ {"entering"}
        /\ tLock' \in LockForms /\ eLock' \in LockForms /\ excused' \subseteq KThreads
        /\ UNCHANGED <<tables, errors>>
    BY <1>0, <1>14, LockForm DEF DropCall, Places
  <2>2. call' \in [Calls -> CallForms] /\ EntersStored'
    BY <1>c, <2>1 DEF tables
  <2>. QED  BY <1>0, <2>1, <2>2 DEF tables
<1>15. CASE UNCHANGED registryVars
  <2>1. EntersStored'
    BY <1>15 DEF EntersStored, registryVars, tables
  <2>. QED  BY <1>0, <1>15, <2>1 DEF registryVars, tables
<1>. QED
  BY <1>1, <1>2, <1>3, <1>4, <1>5, <1>6, <1>7, <1>8, <1>9, <1>10, <1>11, <1>12, <1>13, <1>14, <1>15
     DEF RegistryNext, CallStep

\* The tables, the locks and the calls keep their form, and no thread is in the
\* table without a directory.
THEOREM RegistryTypeCorrect == RegistrySpec => []RegistryTypeOK
<1>1. RegistryInit => RegistryTypeOK /\ EntersStored
  BY RegistryTypeInit
<1>2. RegistryTypeOK /\ EntersStored /\ [RegistryNext]_registryVars
        => (RegistryTypeOK /\ EntersStored)'
  BY RegistryTypeStep
<1>. QED  BY <1>1, <1>2, PTL DEF RegistrySpec

-----------------------------------------------------------------------------
(* The inductive invariant *)

\* A step of a call that neither spawns nor touches executors.
Aside(c) ==
  /\ \A d \in Calls : d # c => call'[d] = call[d]
  /\ call'[c].at \notin Spawning
  /\ call[c].at \in {"inserting", "dropped"} =>
       call'[c].at = "dropped" /\ call'[c].executor = call[c].executor
  /\ call[c].at = "inserting" => call[c].thread \subseteq excused'
  /\ excused \subseteq excused'
  /\ UNCHANGED <<executors, execTask, owner>>

\* kill_executor and shutdown: the tasks whose handles are taken are aborted.
Removes(c, gone) ==
  /\ \A d \in Calls : d # c => call'[d] = call[d]
  /\ call[c].at = "idle" /\ call'[c].at \notin Spawning
  /\ executors' = [e \in Executors |-> IF e \in gone THEN Absent ELSE executors[e]]
  /\ execTask' = Aborted(gone)
  /\ UNCHANGED <<owner, excused>>

Controls(c, e, state) ==
  /\ \A d \in Calls : d # c => call'[d] = call[d]
  /\ call[c].at = "idle" /\ call'[c].at \notin Spawning
  /\ executors' = [executors EXCEPT ![e] = state] /\ executors[e] # Absent
  /\ excused \subseteq excused' /\ (state = "Running" \/ owner[e] \subseteq excused')
  /\ UNCHANGED <<execTask, owner>>

LEMMA StepForms ==
  ASSUME RegistryTypeOK, [RegistryNext]_registryVars
  PROVE  \/ \E c \in Calls : \/ Aside(c) \/ SpawnChecks(c) \/ SpawnTask(c) \/ InsertHandle(c)
                             \/ \E gone \in SUBSET Executors : Removes(c, gone)
                             \/ \E e \in Executors, state \in {"Paused", "Running", "Error"} :
                                  Controls(c, e, state)
         \/ \E e \in Executors : TaskEnds(e)
         \/ UNCHANGED <<call, executors, execTask, owner, excused>>
<1>0. call \in [Calls -> CallForms] /\ owner \in [Executors -> SUBSET KThreads]
      /\ executors \in [Executors -> {Absent, "Running", "Paused", "Error"}]
  BY RegistryTypes
<1>. DEFINE Goal == \/ \E c \in Calls : \/ Aside(c) \/ SpawnChecks(c) \/ SpawnTask(c) \/ InsertHandle(c)
                             \/ \E gone \in SUBSET Executors : Removes(c, gone)
                             \/ \E e \in Executors, state \in {"Paused", "Running", "Error"} :
                                  Controls(c, e, state)
                    \/ \E e \in Executors : TaskEnds(e)
                    \/ UNCHANGED <<call, executors, execTask, owner, excused>>
\* Goto and Begin with the places that are used.
<1>a. ASSUME NEW c \in Calls, NEW place \in Places \ Spawning, Goto(c, place),
             call[c].at \notin {"inserting", "dropped"}, excused \subseteq excused',
             UNCHANGED <<executors, execTask, owner>>
      PROVE  Aside(c)
  <2>1. place \in Places
    OBVIOUS
  <2>2. call'[c].at = place /\ \A d \in Calls : d # c => call'[d] = call[d]
    BY <1>0, <1>a, <2>1, CallForm
  <2>3. place \notin Spawning
    OBVIOUS
  <2>. QED  BY <1>a, <2>2, <2>3 DEF Aside
<1>b. ASSUME NEW c \in Calls, NEW place \in Places \ Spawning,
             NEW t \in SUBSET KThreads, NEW e \in SUBSET Executors, Begin(c, place, t, e)
      PROVE  /\ \A d \in Calls : d # c => call'[d] = call[d]
             /\ call[c].at = "idle" /\ call'[c].at \notin Spawning
  <2>1. place \in Places
    OBVIOUS
  <2>2. call[c].at = "idle" /\ call'[c].at = place /\ \A d \in Calls : d # c => call'[d] = call[d]
    BY <1>0, <1>b, <2>1, CallForm
  <2>3. place \notin Spawning
    OBVIOUS
  <2>. QED  BY <2>2, <2>3
<1>c. {"entering", "checking", "marking", "updating", "killing", "pausing", "counting", "returned",
       "dropped"} \subseteq Places \ Spawning
  BY DEF Places, Spawning
<1>d. {} \in SUBSET KThreads /\ {} \in SUBSET Executors
  OBVIOUS
<1>1. ASSUME NEW c \in Calls, NEW t \in KThreads, CreateThread(c, t)
      PROVE  Goal
  <2>1. UNCHANGED <<executors, execTask, owner, excused>> /\ {t} \in SUBSET KThreads
    BY <1>1 DEF CreateThread
  <2>2. CASE Begin(c, "entering", {t}, {})
    <3>1. /\ \A d \in Calls : d # c => call'[d] = call[d]
          /\ call[c].at = "idle" /\ call'[c].at \notin Spawning
      BY <1>b, <1>c, <1>d, <2>1, <2>2
    <3>2. Aside(c)
      BY <2>1, <3>1 DEF Aside
    <3>. QED  BY <3>2
  <2>3. CASE call[c].at = "idle" /\ AccessFails(c)
    <3>1. Goto(c, "returned")
      BY <2>3 DEF AccessFails, Return
    <3>2. Aside(c)
      BY <1>a, <1>c, <2>1, <2>3, <3>1
    <3>. QED  BY <3>2
  <2>. QED  BY <1>1, <2>2, <2>3 DEF CreateThread
<1>2. ASSUME NEW c \in Calls, EnterThread(c)
      PROVE  Goal
  <2>1. Aside(c)
    BY <1>a, <1>c, <1>2 DEF EnterThread, Return
  <2>. QED  BY <2>1
<1>3. ASSUME NEW c \in Calls, NEW t \in KThreads, BeginSpawn(c, t)
      PROVE  Goal
  <2>1. /\ Begin(c, "checking", {t}, {}) /\ {t} \in SUBSET KThreads
        /\ UNCHANGED <<executors, execTask, owner, excused>>
    BY <1>3 DEF BeginSpawn, tables
  <2>2. /\ \A d \in Calls : d # c => call'[d] = call[d]
        /\ call[c].at = "idle" /\ call'[c].at \notin Spawning
    BY <1>b, <1>c, <1>d, <2>1
  <2>3. Aside(c)
    BY <2>1, <2>2 DEF Aside
  <2>. QED  BY <2>3
<1>5. ASSUME NEW c \in Calls, CreateFails(c)
      PROVE  Goal
  <2>1. Goto(c, "returned") /\ call[c].at = "creating"
        /\ UNCHANGED <<executors, execTask, owner, excused>>
    BY <1>5 DEF CreateFails, AccessFails, Return, tables
  <2>2. Aside(c)
    BY <1>a, <1>c, <2>1
  <2>. QED  BY <2>2
<1>8. ASSUME NEW c \in Calls, MarkThread(c) \/ SpawnReturns(c) \/ KillMarks(c) \/ KillReturns(c)
                               \/ ReadExecutors(c)
      PROVE  Goal
  <2>1. /\ UNCHANGED <<executors, execTask, owner, excused>>
        /\ Goto(c, "updating") \/ Goto(c, "returned") \/ Goto(c, "pausing")
        /\ call[c].at \notin {"inserting", "dropped"}
    BY <1>8
       DEF MarkThread, SpawnReturns, KillMarks, KillReturns, ReadExecutors, Return, AccessFails, tables
  <2>2. Aside(c)
    BY <1>a, <1>c, <2>1
  <2>. QED  BY <2>2
<1>9. ASSUME NEW c \in Calls, NEW e \in Executors, NEW state \in {"Paused", "Running", "Error"},
             ControlExecutor(c, e, state)
      PROVE  Goal
  <2>1. /\ Begin(c, "returned", {}, {})
        /\ executors' = [executors EXCEPT ![e] = state] /\ executors[e] # Absent
        /\ excused \subseteq excused' /\ (state = "Running" \/ owner[e] \subseteq excused')
        /\ UNCHANGED <<execTask, owner>>
    BY <1>9 DEF ControlExecutor
  <2>2. Controls(c, e, state)
    BY <1>b, <1>c, <1>d, <2>1 DEF Controls
  <2>. QED  BY <2>2
<1>10. ASSUME NEW c \in Calls, NEW e \in Executors, KillExecutor(c, e)
       PROVE  Goal
  <2>1. /\ Begin(c, "killing", owner[e], {e})
        /\ owner[e] \in SUBSET KThreads /\ {e} \in SUBSET Executors
        /\ executors' = [executors EXCEPT ![e] = Absent]
        /\ execTask' = Aborted({e})
        /\ UNCHANGED <<owner, excused>>
    BY <1>0, <1>10 DEF KillExecutor
  <2>2. executors' = [f \in Executors |-> IF f \in {e} THEN Absent ELSE executors[f]]
    BY <1>0, <2>1
  <2>3. Removes(c, {e})
    BY <1>b, <1>c, <2>1, <2>2 DEF Removes
  <2>. QED  BY <2>1, <2>3
<1>11. ASSUME NEW c \in Calls, ReadThreads(c)
       PROVE  Goal
  <2>1. /\ Begin(c, "counting", {}, {})
        /\ UNCHANGED <<executors, execTask, owner, excused>>
    BY <1>11 DEF ReadThreads, tables
  <2>2. /\ \A d \in Calls : d # c => call'[d] = call[d]
        /\ call[c].at = "idle" /\ call'[c].at \notin Spawning
    BY <1>b, <1>c, <1>d, <2>1
  <2>3. Aside(c)
    BY <2>1, <2>2 DEF Aside
  <2>. QED  BY <2>3
<1>12. ASSUME NEW c \in Calls, ShutdownExecutors(c)
       PROVE  Goal
  <2>. DEFINE gone == {e \in Executors : executors[e] # Absent}
  <2>1. /\ Begin(c, "returned", {}, {})
        /\ executors' = [e \in Executors |-> Absent]
        /\ execTask' = Aborted(gone)
        /\ UNCHANGED <<owner, excused>>
    BY <1>12 DEF ShutdownExecutors
  <2>2. executors' = [f \in Executors |-> IF f \in gone THEN Absent ELSE executors[f]]
    BY <1>0, <2>1
  <2>3. Removes(c, gone)
    BY <1>b, <1>c, <1>d, <2>1, <2>2 DEF Removes
  <2>. QED  BY <2>3
<1>14. ASSUME NEW c \in Calls, DropCall(c)
       PROVE  Goal
  <2>1. /\ Goto(c, "dropped") /\ "dropped" \in Places /\ call[c].at # "dropped"
        /\ excused \subseteq excused'
        /\ call[c].at = "inserting" => call[c].thread \subseteq excused'
        /\ UNCHANGED <<executors, execTask, owner>>
    BY <1>14 DEF DropCall, Places, tables
  <2>2. /\ call'[c].at = "dropped" /\ call'[c].executor = call[c].executor
        /\ \A d \in Calls : d # c => call'[d] = call[d]
    BY <1>0, <2>1, CallForm
  <2>3. Aside(c)
    BY <2>1, <2>2 DEF Aside, Spawning
  <2>. QED  BY <2>3
<1>15. CASE UNCHANGED registryVars
  BY <1>15 DEF registryVars, tables
<1>. QED
  BY <1>1, <1>2, <1>3, <1>5, <1>8, <1>9, <1>10, <1>11, <1>12, <1>14, <1>15
     DEF RegistryNext, CallStep

SpawnInv == OneSpawn /\ NothingYet /\ WorkIsSeen /\ OneWorks /\ TaskHasHandle

LEMMA CheckForm ==
  ASSUME RegistryTypeOK, NEW c \in Calls, SpawnChecks(c)
  PROVE  /\ \A d \in Calls : d # c => call'[d] = call[d]
         /\ call[c].at = "checking" /\ call'[c].thread = call[c].thread
         /\ UNCHANGED <<executors, execTask, owner>> /\ excused \subseteq excused'
         /\ \/ call'[c].at \notin Spawning
            \/ /\ call'[c].at = "creating" /\ ~ActiveHandle(call[c].thread)
               /\ SpawnUnderWay(call[c].thread) => call[c].thread \subseteq excused'
<1>1. call \in [Calls -> CallForms] /\ {"creating", "returned"} \subseteq Places
  BY RegistryTypes DEF Places
<1>2. /\ call[c].at = "checking" /\ UNCHANGED <<executors, execTask, owner>>
      /\ excused \subseteq excused'
  BY DEF SpawnChecks, tables
<1>3. CASE Goto(c, "creating")
  <2>1. ~ActiveHandle(call[c].thread) /\ (SpawnUnderWay(call[c].thread) => call[c].thread \subseteq excused')
    <3>1. call'[c].at = "creating"
      BY <1>1, <1>3, CallForm
    <3>2. Goto(c, "returned") => call'[c].at = "returned"
      BY <1>1, CallForm
    <3>. QED  BY <3>1, <3>2 DEF SpawnChecks, Return
  <2>2. /\ \A d \in Calls : d # c => call'[d] = call[d]
        /\ call'[c].at = "creating" /\ call'[c].thread = call[c].thread
    BY <1>1, <1>3, CallForm
  <2>. QED  BY <1>2, <2>1, <2>2
<1>4. CASE Goto(c, "returned")
  <2>1. /\ \A d \in Calls : d # c => call'[d] = call[d]
        /\ call'[c].at = "returned" /\ call'[c].thread = call[c].thread
    BY <1>1, <1>4, CallForm
  <2>. QED  BY <1>2, <2>1 DEF Spawning
<1>. QED  BY <1>3, <1>4 DEF SpawnChecks, Return

LEMMA TaskForm ==
  ASSUME RegistryTypeOK, NEW c \in Calls, SpawnTask(c)
  PROVE  \E e \in Executors :
         /\ call[c].at = "creating" /\ execTask[e] = "none"
         /\ call'[c].at = "inserting" /\ call'[c].thread = call[c].thread
         /\ call'[c].executor = {e} /\ owner'[e] = call[c].thread
         /\ \A d \in Calls : d # c => call'[d] = call[d]
         /\ \A f \in Executors : f # e => execTask'[f] = execTask[f] /\ owner'[f] = owner[f]
         /\ UNCHANGED <<executors, excused>>
<1>. DEFINE e == CHOOSE x \in Fresh : TRUE
<1>1. e \in Executors /\ execTask[e] = "none"
  BY DEF SpawnTask, Fresh
<1>2. /\ call' = [call EXCEPT ![c].at = "inserting", ![c].executor = {e}]
      /\ execTask' = [execTask EXCEPT ![e] = "running"]
      /\ owner' = [owner EXCEPT ![e] = call[c].thread]
      /\ UNCHANGED <<executors, excused>> /\ call[c].at = "creating"
  BY DEF SpawnTask
<1>3. /\ call \in [Calls -> CallForms] /\ owner \in [Executors -> SUBSET KThreads]
      /\ execTask \in [Executors -> {"none", "running", "ended", "aborted"}]
  BY RegistryTypes
<1>. HIDE DEF e
<1>4. LET f == [[call[c] EXCEPT !.at = "inserting"] EXCEPT !.executor = {e}]
      IN f.at = "inserting" /\ f.executor = {e} /\ f.thread = call[c].thread
  BY <1>3 DEF CallForms
<1>5. call' = [call EXCEPT ![c] = [[call[c] EXCEPT !.at = "inserting"] EXCEPT !.executor = {e}]]
  BY <1>2, <1>3
<1>. QED  BY <1>1, <1>2, <1>3, <1>4, <1>5

LEMMA InsertForm ==
  ASSUME RegistryTypeOK, NEW c \in Calls, InsertHandle(c)
  PROVE  /\ call[c].at = "inserting" /\ call'[c].at = "marking"
         /\ \A d \in Calls : d # c => call'[d] = call[d]
         /\ \A e \in Executors :
              executors'[e] = IF e \in call[c].executor THEN "Running" ELSE executors[e]
         /\ UNCHANGED <<execTask, owner, excused>>
<1>1. call \in [Calls -> CallForms] /\ "marking" \in Places
  BY RegistryTypes DEF Places
<1>. QED  BY <1>1, CallForm DEF InsertHandle

\* A thread that is not excused after a step was not before it.
LEMMA SpawnInvStep ==
  RegistryTypeOK /\ SpawnInv /\ [RegistryNext]_registryVars => SpawnInv'
<1>. SUFFICES ASSUME RegistryTypeOK, SpawnInv, [RegistryNext]_registryVars
              PROVE  SpawnInv'
  OBVIOUS
<1>0. /\ execTask \in [Executors -> {"none", "running", "ended", "aborted"}]
      /\ executors \in [Executors -> {Absent, "Running", "Paused", "Error"}]
      /\ owner \in [Executors -> SUBSET KThreads] /\ "Running" # Absent
  BY RegistryTypes DEF Absent
<1>1. ASSUME NEW c \in Calls, Aside(c)
      PROVE  SpawnInv'
  <2>1. \A t \in KThreads : /\ \A d \in Calls : SpawnsFor(d, t)' => d # c /\ SpawnsFor(d, t)
                            /\ \A e \in Executors : Works(e, t)' <=> Works(e, t)
    BY <1>1 DEF Aside, SpawnsFor, Works
  <2>2. OneSpawn' /\ OneWorks'
    BY <1>1, <2>1 DEF Aside, SpawnInv, OneSpawn, OneWorks
  <2>3. NothingYet'
    BY <1>1, <2>1 DEF Aside, SpawnInv, NothingYet, Spawning
  <2>4. WorkIsSeen'
    BY <1>1, <2>1 DEF Aside, SpawnInv, WorkIsSeen
  <2>5. TaskHasHandle'
    BY <1>1 DEF Aside, SpawnInv, TaskHasHandle
  <2>. QED  BY <2>2, <2>3, <2>4, <2>5 DEF SpawnInv
<1>2. ASSUME NEW c \in Calls, SpawnChecks(c)
      PROVE  SpawnInv'
  <2>0. /\ \A d \in Calls : d # c => call'[d] = call[d]
        /\ call[c].at = "checking" /\ call'[c].thread = call[c].thread
        /\ UNCHANGED <<executors, execTask, owner>> /\ excused \subseteq excused'
        /\ \/ call'[c].at \notin Spawning
           \/ /\ call'[c].at = "creating" /\ ~ActiveHandle(call[c].thread)
              /\ SpawnUnderWay(call[c].thread) => call[c].thread \subseteq excused'
    BY <1>2, CheckForm
  <2>1. \A t \in KThreads \ excused' : SpawnsFor(c, t)' =>
          /\ ~ActiveHandle({t}) /\ ~SpawnUnderWay({t})
    BY <2>0 DEF SpawnsFor
  <2>2. \A t \in KThreads : /\ \A d \in Calls : d # c => (SpawnsFor(d, t)' <=> SpawnsFor(d, t))
                            /\ \A e \in Executors : Works(e, t)' <=> Works(e, t)
    BY <2>0 DEF SpawnsFor, Works
  <2>3. OneSpawn'
    <3>. SUFFICES ASSUME NEW t \in KThreads \ excused', NEW a \in Calls, NEW b \in Calls,
                         SpawnsFor(a, t)', SpawnsFor(b, t)'
                  PROVE  a = b
      BY DEF OneSpawn
    <3>1. CASE a # c /\ b # c
      BY <2>0, <2>2, <3>1 DEF SpawnInv, OneSpawn
    <3>2. \A d \in Calls : d # c /\ SpawnsFor(d, t)' => SpawnUnderWay({t})
      BY <2>2 DEF SpawnsFor, SpawnUnderWay, Spawning
    <3>. QED  BY <2>1, <3>1, <3>2
  <2>4. NothingYet'
    <3>. SUFFICES ASSUME NEW t \in KThreads \ excused', NEW d \in Calls, NEW e \in Executors,
                         call'[d].at = "creating", call'[d].thread = {t}, Works(e, t)
                  PROVE  FALSE
      BY <2>2 DEF NothingYet
    <3>1. CASE d # c
      BY <2>0, <3>1 DEF SpawnInv, NothingYet
    <3>2. CASE d = c
      <4>1. ~ActiveHandle({t}) /\ ~SpawnUnderWay({t})
        BY <2>1, <3>2 DEF SpawnsFor, Spawning
      <4>. QED  BY <2>0, <4>1 DEF SpawnInv, WorkIsSeen, Works, ActiveHandle, SpawnUnderWay
    <3>. QED  BY <3>1, <3>2
  <2>5. WorkIsSeen'
    BY <2>0, <2>2 DEF SpawnInv, WorkIsSeen
  <2>6. OneWorks'
    BY <2>0, <2>2 DEF SpawnInv, OneWorks
  <2>7. TaskHasHandle'
    BY <2>0 DEF SpawnInv, TaskHasHandle
  <2>. QED  BY <2>3, <2>4, <2>5, <2>6, <2>7 DEF SpawnInv
<1>3. ASSUME NEW c \in Calls, SpawnTask(c)
      PROVE  SpawnInv'
  <2>0. PICK e \in Executors :
          /\ call[c].at = "creating" /\ execTask[e] = "none"
          /\ call'[c].at = "inserting" /\ call'[c].thread = call[c].thread
          /\ call'[c].executor = {e} /\ owner'[e] = call[c].thread
          /\ \A d \in Calls : d # c => call'[d] = call[d]
          /\ \A f \in Executors : f # e => execTask'[f] = execTask[f] /\ owner'[f] = owner[f]
          /\ UNCHANGED <<executors, excused>>
    BY <1>3, TaskForm
  <2>1. \A t \in KThreads : /\ \A d \in Calls : SpawnsFor(d, t)' <=> SpawnsFor(d, t)
                            /\ \A f \in Executors : f # e => (Works(f, t)' <=> Works(f, t))
                            /\ Works(e, t)' => SpawnsFor(c, t) /\ call[c].at = "creating"
    BY <2>0 DEF SpawnsFor, Works, Spawning
  <2>2. OneSpawn'
    BY <2>0, <2>1 DEF SpawnInv, OneSpawn
  \* Another call that was creating for the thread would be this one.
  <2>3. NothingYet'
    <3>. SUFFICES ASSUME NEW t \in KThreads \ excused, NEW d \in Calls, NEW f \in Executors,
                         call'[d].at = "creating", call'[d].thread = {t}, Works(f, t)'
                  PROVE  FALSE
      BY <2>0 DEF NothingYet
    <3>1. d # c /\ call[d].at = "creating" /\ call[d].thread = {t}
      BY <2>0
    <3>2. CASE f = e
      BY <2>1, <3>1, <3>2 DEF SpawnInv, OneSpawn, SpawnsFor, Spawning
    <3>3. CASE f # e
      BY <2>1, <3>1, <3>3 DEF SpawnInv, NothingYet
    <3>. QED  BY <3>2, <3>3
  <2>4. WorkIsSeen'
    <3>. SUFFICES ASSUME NEW t \in KThreads \ excused, NEW f \in Executors, Works(f, t)',
                         executors[f] # "Running"
                  PROVE  \E d \in Calls : /\ call'[d].at = "inserting" /\ call'[d].thread = {t}
                                          /\ call'[d].executor = {f}
      BY <2>0 DEF WorkIsSeen
    <3>1. CASE f = e
      BY <2>0, <2>1, <3>1 DEF SpawnsFor
    <3>2. CASE f # e
      <4>1. PICK d \in Calls : /\ call[d].at = "inserting" /\ call[d].thread = {t}
                               /\ call[d].executor = {f}
        BY <2>1, <3>2 DEF SpawnInv, WorkIsSeen
      <4>. QED  BY <2>0, <4>1
    <3>. QED  BY <3>1, <3>2
  <2>5. OneWorks'
    <3>. SUFFICES ASSUME NEW t \in KThreads \ excused, NEW f \in Executors, NEW g \in Executors,
                         Works(f, t)', Works(g, t)', f # g
                  PROVE  FALSE
      BY <2>0 DEF OneWorks
    <3>1. CASE f # e /\ g # e
      BY <2>1, <3>1 DEF SpawnInv, OneWorks
    <3>2. CASE f = e \/ g = e
      <4>1. SpawnsFor(c, t) /\ call[c].at = "creating"
        BY <2>1, <3>2
      <4>2. \E h \in Executors : Works(h, t)
        BY <2>1, <3>2
      <4>. QED  BY <4>1, <4>2 DEF SpawnInv, NothingYet, SpawnsFor
    <3>. QED  BY <3>1, <3>2
  <2>6. TaskHasHandle'
    <3>. SUFFICES ASSUME NEW f \in Executors, execTask'[f] = "running", executors[f] = Absent
                  PROVE  \E d \in Calls : /\ call'[d].executor = {f}
                                          /\ call'[d].at \in {"inserting", "dropped"}
      BY <2>0 DEF TaskHasHandle
    <3>1. CASE f = e
      BY <2>0, <3>1
    <3>2. CASE f # e
      <4>1. PICK d \in Calls : call[d].executor = {f} /\ call[d].at \in {"inserting", "dropped"}
        BY <2>0, <3>2 DEF SpawnInv, TaskHasHandle
      <4>. QED  BY <2>0, <4>1
    <3>. QED  BY <3>1, <3>2
  <2>. QED  BY <2>2, <2>3, <2>4, <2>5, <2>6 DEF SpawnInv
<1>4. ASSUME NEW c \in Calls, InsertHandle(c)
      PROVE  SpawnInv'
  <2>0. /\ call[c].at = "inserting" /\ call'[c].at = "marking"
        /\ \A d \in Calls : d # c => call'[d] = call[d]
        /\ \A e \in Executors :
             executors'[e] = IF e \in call[c].executor THEN "Running" ELSE executors[e]
        /\ UNCHANGED <<execTask, owner, excused>>
    BY <1>4, InsertForm
  <2>1. \A t \in KThreads : /\ \A d \in Calls : SpawnsFor(d, t)' => d # c /\ SpawnsFor(d, t)
                            /\ \A e \in Executors : Works(e, t)' <=> Works(e, t)
    BY <2>0 DEF SpawnsFor, Works, Spawning
  <2>2. OneSpawn' /\ OneWorks'
    BY <2>0, <2>1 DEF SpawnInv, OneSpawn, OneWorks
  <2>3. NothingYet'
    BY <2>0, <2>1 DEF SpawnInv, NothingYet
  <2>4. WorkIsSeen'
    BY <2>0, <2>1 DEF SpawnInv, WorkIsSeen
  <2>5. TaskHasHandle'
    BY <1>0, <2>0 DEF SpawnInv, TaskHasHandle
  <2>. QED  BY <2>2, <2>3, <2>4, <2>5 DEF SpawnInv
<1>5. ASSUME NEW c \in Calls, NEW gone \in SUBSET Executors, Removes(c, gone)
      PROVE  SpawnInv'
  <2>0. /\ \A e \in Executors : execTask'[e] = "running" =>
             e \notin gone /\ execTask[e] = "running" /\ executors'[e] = executors[e]
        /\ excused' = excused /\ owner' = owner
        /\ \A d \in Calls : d # c => call'[d] = call[d]
        /\ call[c].at = "idle" /\ call'[c].at \notin Spawning
    BY <1>0, <1>5 DEF Removes, Aborted
  <2>1. \A t \in KThreads : /\ \A d \in Calls : SpawnsFor(d, t)' => d # c /\ SpawnsFor(d, t)
                            /\ \A e \in Executors : Works(e, t)' => Works(e, t)
    BY <2>0 DEF SpawnsFor, Works
  <2>2. OneSpawn' /\ OneWorks'
    BY <2>0, <2>1 DEF SpawnInv, OneSpawn, OneWorks
  <2>3. NothingYet'
    BY <2>0, <2>1 DEF SpawnInv, NothingYet, Spawning
  <2>4. WorkIsSeen'
    BY <2>0, <2>1 DEF SpawnInv, WorkIsSeen, Works
  <2>5. TaskHasHandle'
    BY <2>0 DEF SpawnInv, TaskHasHandle
  <2>. QED  BY <2>2, <2>3, <2>4, <2>5 DEF SpawnInv
<1>6. ASSUME NEW c \in Calls, NEW x \in Executors, NEW state \in {"Paused", "Running", "Error"},
             Controls(c, x, state)
      PROVE  SpawnInv'
  <2>0. /\ \A e \in Executors : e # x => executors'[e] = executors[e]
        /\ executors'[x] = state /\ executors[x] # Absent /\ state # Absent
        /\ excused \subseteq excused' /\ (state = "Running" \/ owner[x] \subseteq excused')
        /\ owner' = owner /\ execTask' = execTask
        /\ \A d \in Calls : d # c => call'[d] = call[d]
        /\ call[c].at = "idle" /\ call'[c].at \notin Spawning
    BY <1>0, <1>6 DEF Controls, Absent
  <2>1. \A t \in KThreads : /\ \A d \in Calls : SpawnsFor(d, t)' => d # c /\ SpawnsFor(d, t)
                            /\ \A e \in Executors : Works(e, t)' <=> Works(e, t)
    BY <2>0 DEF SpawnsFor, Works
  <2>2. OneSpawn' /\ OneWorks'
    BY <2>0, <2>1 DEF SpawnInv, OneSpawn, OneWorks
  <2>3. NothingYet'
    BY <2>0, <2>1 DEF SpawnInv, NothingYet, Spawning
  <2>4. WorkIsSeen'
    BY <2>0, <2>1 DEF SpawnInv, WorkIsSeen, Works
  <2>5. TaskHasHandle'
    BY <2>0 DEF SpawnInv, TaskHasHandle
  <2>. QED  BY <2>2, <2>3, <2>4, <2>5 DEF SpawnInv
<1>7. ASSUME NEW x \in Executors, TaskEnds(x)
      PROVE  SpawnInv'
  <2>0. /\ UNCHANGED <<call, executors, owner, excused>>
        /\ \A e \in Executors : execTask'[e] = "running" => execTask[e] = "running"
    BY <1>0, <1>7 DEF TaskEnds
  <2>1. /\ \A t \in KThreads, e \in Executors : Works(e, t)' => Works(e, t)
        /\ \A t \in KThreads, d \in Calls : SpawnsFor(d, t)' <=> SpawnsFor(d, t)
    BY <2>0 DEF Works, SpawnsFor
  <2>2. OneSpawn' /\ OneWorks' /\ NothingYet'
    BY <2>0, <2>1 DEF SpawnInv, OneSpawn, OneWorks, NothingYet
  <2>3. call' = call /\ executors' = executors /\ excused' = excused
    BY <2>0
  <2>4. WorkIsSeen'
    BY <2>1, <2>3 DEF SpawnInv, WorkIsSeen
  <2>5. TaskHasHandle'
    BY <2>0, <2>3 DEF SpawnInv, TaskHasHandle
  <2>. QED  BY <2>2, <2>4, <2>5 DEF SpawnInv
<1>8. CASE UNCHANGED <<call, executors, execTask, owner, excused>>
  <2>1. OneSpawn' /\ OneWorks' /\ NothingYet'
    BY <1>8 DEF SpawnInv, OneSpawn, OneWorks, NothingYet, Works, SpawnsFor
  <2>2. /\ call' = call /\ executors' = executors /\ excused' = excused
        /\ execTask' = execTask /\ owner' = owner
    BY <1>8
  <2>3. WorkIsSeen'
    BY <2>2 DEF SpawnInv, WorkIsSeen, Works
  <2>4. TaskHasHandle'
    BY <2>2 DEF SpawnInv, TaskHasHandle
  <2>. QED  BY <2>1, <2>3, <2>4 DEF SpawnInv
<1>. QED  BY <1>1, <1>2, <1>3, <1>4, <1>5, <1>6, <1>7, <1>8, StepForms

LEMMA SpawnInvInit == RegistryInit => SpawnInv
<1>. SUFFICES ASSUME RegistryInit
              PROVE  SpawnInv
  OBVIOUS
<1>1. /\ \A c \in Calls : call[c].at = "idle"
      /\ \A e \in Executors : execTask[e] = "none"
  BY DEF RegistryInit
<1>. QED
  BY <1>1, RegistryTypeInit DEF SpawnInv, OneSpawn, NothingYet, WorkIsSeen, OneWorks,
     TaskHasHandle, SpawnsFor, Spawning, Works

LEMMA RegistryInvariant == RegistrySpec => [](RegistryTypeOK /\ SpawnInv)
<1>. DEFINE Inv == RegistryTypeOK /\ EntersStored /\ SpawnInv
<1>1. RegistryInit => Inv
  BY RegistryTypeInit, SpawnInvInit
<1>2. Inv /\ [RegistryNext]_registryVars => Inv'
  BY RegistryTypeStep, SpawnInvStep
<1>. QED  BY <1>1, <1>2, PTL DEF RegistrySpec

LEMMA SpawnInvImplies == RegistryTypeOK /\ SpawnInv => OneActive
<1>. SUFFICES ASSUME SpawnInv, NEW t \in KThreads \ excused
              PROVE  Cardinality({e \in Executors : Works(e, t)}) <= 1
  BY DEF OneActive, Works
<1>. DEFINE S == {e \in Executors : Works(e, t)}
<1>1. CASE S = {}
  BY <1>1, FS_EmptySet
<1>2. CASE S # {}
  <2>1. PICK e : S = {e}
    BY <1>2 DEF SpawnInv, OneWorks
  <2>2. Cardinality({e}) = 1
    BY FS_Singleton
  <2>3. Cardinality(S) = 1
    BY <2>1, <2>2
  <2>. QED  BY <2>3
<1>. QED  BY <1>1, <1>2

\* At most one executor works on a thread that is not excused, for any number of
\* calls that spawn, pause, kill, shut down or are dropped between any two steps.
THEOREM ExecutorsUnique == RegistrySpec => []OneActive
  BY RegistryInvariant, SpawnInvImplies, PTL

\* A running executor is in the table, or the call that spawned it is about to
\* put it there or was dropped before it could: only a dropped call leaves an
\* executor that nobody can kill.
THEOREM RunningIsReachable == RegistrySpec => []TaskHasHandle
  BY RegistryInvariant, PTL DEF SpawnInv

-----------------------------------------------------------------------------
(***************************************************************************)
(* Proofs about the trace collector, for any number of records and reads,  *)
(* any names of files, any number of runs and of failing accesses.         *)
(*                                                                         *)
(* A save writes what it read, because no operation is added while it      *)
(* holds the mutex (SaverLocks); so each later save contains what earlier  *)
(* ones have written, and what a failed write or one that outlived its     *)
(* handler has lost is back after the next save that no such write runs    *)
(* beside (StrayKnown).  A trace's file is safe from the failures of other *)
(* traces, and its own comes before the trace is in the index              *)
(* (IndexedLast).                                                          *)
(***************************************************************************)

TracePlaces == {"idle", "noted", "saving", "saved", "written", "indexed", "stuck",
                "reading", "stray", "stray trace", "answered"}

\* A mutex has at most one holder.
OneHolder(lock) == lock = {} \/ \E c \in Traces : lock = {c}

TraceTypes ==
  /\ trace \in [Traces -> TracePlaces]
  /\ operations \subseteq Traces /\ stateFile \subseteq Traces
  /\ snapshot \in [Traces -> SUBSET Traces]
  /\ traceFile \in [Names -> SUBSET Traces]
  /\ traceIndex \subseteq Traces /\ indexFile = {}
  /\ OneHolder(stateLock) /\ OneHolder(indexLock)
  /\ writeErrors \in 0..MaxWriteErrors /\ runs \in 1..MaxRuns
  /\ beside \subseteq Traces /\ damaged \in BOOLEAN

Noted == {"noted", "saving", "saved", "written", "indexed", "stuck", "stray trace"}
Saved == {"saved", "written", "indexed", "stuck"}
Filed(c) == Namesakes(c) = {} => traceFile[NameOf[c]] = {c}

\* The operation of a record is in memory as long as it is under way.
NotedInMemory == \A c \in Traces : trace[c] \in Noted => c \in operations

\* A save holds the mutex, and what it will write is still what memory has.
SaverLocks == \A c \in Traces : trace[c] = "saving" => stateLock = {c} /\ snapshot[c] = operations

\* A write without its handler is remembered, and so is a save that runs beside it.
StrayKnown ==
  \A c \in Traces : trace[c] = "stray" =>
    damaged /\ \A d \in Traces : trace[d] = "saving" => d \in beside

SavedInFile == ~damaged => \A c \in Traces : trace[c] \in Saved => c \in stateFile

\* A trace has a file before it is in the index.
WrittenIsFiled ==
  \A c \in Traces : trace[c] \in {"written", "indexed", "stuck"} \/ c \in traceIndex => Filed(c)

\* A trace that is in the index writes no more.
IndexedLast == \A c \in traceIndex : trace[c] \in {"indexed", "stuck", "answered"}

RecordInv ==
  IndexedLast /\ NotedInMemory /\ SaverLocks /\ StrayKnown /\ SavedInFile /\ WrittenIsFiled

-----------------------------------------------------------------------------
LEMMA OneHolderBound ==
  ASSUME NEW lock, OneHolder(lock)
  PROVE  Cardinality(lock) <= 1
<1>1. CASE lock = {}
  BY <1>1, FS_EmptySet
<1>2. CASE \E c \in Traces : lock = {c}
  <2>1. PICK c \in Traces : lock = {c}
    BY <1>2
  <2>2. Cardinality({c}) = 1
    BY FS_Singleton
  <2>. QED  BY <2>1, <2>2
<1>. QED  BY <1>1, <1>2 DEF OneHolder

LEMMA OneHolderFree ==
  ASSUME NEW lock, OneHolder(lock), NEW c \in Traces
  PROVE  OneHolder(Unlocked1(lock, c)) /\ OneHolder({c}) /\ OneHolder({})
  BY DEF OneHolder, Unlocked1

LEMMA TraceTypesImply == TraceTypes => TraceTypeOK
<1>. SUFFICES ASSUME TraceTypes  PROVE TraceTypeOK
  OBVIOUS
<1>1. Cardinality(stateLock) <= 1 /\ Cardinality(indexLock) <= 1
  BY OneHolderBound DEF TraceTypes
<1>. QED  BY <1>1 DEF TraceTypes, TraceTypeOK, TracePlaces

LEMMA TraceInitial == TraceInit => TraceTypes /\ RecordInv
<1>. SUFFICES ASSUME TraceInit  PROVE TraceTypes /\ RecordInv
  OBVIOUS
<1>1. TraceTypes
  <2>1. 0 \in 0..MaxWriteErrors /\ 1 \in 1..MaxRuns
    BY TraceAssumption
  <2>. QED  BY <2>1 DEF TraceInit, TraceTypes, TracePlaces, OneHolder
<1>2. RecordInv
  BY DEF TraceInit, RecordInv, NotedInMemory, SaverLocks, StrayKnown, SavedInFile,
         WrittenIsFiled, IndexedLast, Noted, Saved
<1>. QED  BY <1>1, <1>2

LEMMA FailureCounts ==
  ASSUME TraceTypes, NEW c \in Traces, NEW from, WriteFails(c, from)
  PROVE  /\ writeErrors' \in 0..MaxWriteErrors
         /\ trace[c] = from /\ trace' = [trace EXCEPT ![c] = "answered"]
  BY TraceAssumption DEF TraceTypes, WriteFails, At

LEMMA TraceTypesStep == TraceTypes /\ [TraceNext]_traceVars => TraceTypes'
<1>. SUFFICES ASSUME TraceTypes, [TraceNext]_traceVars  PROVE TraceTypes'
  OBVIOUS
<1>. USE DEF TraceTypes
<1>a. ASSUME NEW c \in Traces, NEW place \in TracePlaces, trace' = [trace EXCEPT ![c] = place]
      PROVE  trace' \in [Traces -> TracePlaces]
  BY <1>a
<1>b. \A c \in Traces : OneHolder(Unlocked1(stateLock, c)) /\ OneHolder(Unlocked1(indexLock, c))
  BY OneHolderFree
<1>c. \A c \in Traces : OneHolder({c})
  BY DEF OneHolder
<1>1. ASSUME NEW c \in Traces, RecordOperation(c)  PROVE TraceTypes'
  <2>1. trace' \in [Traces -> TracePlaces]
    BY <1>1, <1>a DEF RecordOperation, At, TracePlaces
  <2>. QED  BY <1>1, <2>1 DEF RecordOperation, disk, locks, history, OneHolder
<1>2. ASSUME NEW c \in Traces, SaveThreadState(c)  PROVE TraceTypes'
  <2>1. trace' \in [Traces -> TracePlaces]
    BY <1>2, <1>a DEF SaveThreadState, At, TracePlaces
  <2>. QED  BY <1>2, <2>1, <1>c DEF SaveThreadState, memory, disk, OneHolder
<1>3. ASSUME NEW c \in Traces, ThreadStateSaved(c)  PROVE TraceTypes'
  <2>1. trace' \in [Traces -> TracePlaces] /\ writeErrors' \in 0..MaxWriteErrors
    BY <1>3, <1>a, FailureCounts DEF ThreadStateSaved, At, TracePlaces
  <2>2. stateFile' \subseteq Traces /\ snapshot' \in [Traces -> SUBSET Traces]
    BY <1>3 DEF ThreadStateSaved, Written, Outcome, Remains
  <2>3. OneHolder(stateLock') /\ OneHolder(indexLock')
    BY <1>3, <1>b DEF ThreadStateSaved
  <2>4. damaged' \in BOOLEAN
    <3>. DEFINE lost == damaged \/ stateFile' # stateFile
    <3>1. damaged' = (c \in beside) \/ damaged' = lost
      BY <1>3, Zenon DEF ThreadStateSaved
    <3>2. (c \in beside) \in BOOLEAN /\ lost \in BOOLEAN
      OBVIOUS
    <3>. HIDE DEF lost
    <3>. QED  BY <3>1, <3>2, Zenon
  <2>5. beside' \subseteq Traces
    BY <1>3 DEF ThreadStateSaved, Written
  <2>. QED  BY <1>3, <2>1, <2>2, <2>3, <2>4, <2>5 DEF ThreadStateSaved, memory, OneHolder
<1>4. ASSUME NEW c \in Traces, WriteTrace(c) \/ StrayTrace(c)  PROVE TraceTypes'
  <2>1. trace' \in [Traces -> TracePlaces] /\ writeErrors' \in 0..MaxWriteErrors
    BY <1>4, <1>a, FailureCounts DEF WriteTrace, StrayTrace, At, TracePlaces
  <2>2. traceFile' \in [Names -> SUBSET Traces]
    <3>1. NameOf[c] \in Names
      BY DEF Names
    <3>2. PICK content \in SUBSET Traces : FileOf(c, content)
      BY <1>4, <3>1 DEF WriteTrace, StrayTrace, Outcome, Remains
    <3>. QED  BY <3>1, <3>2 DEF FileOf
  <2>. QED  BY <1>4, <2>1, <2>2 DEF WriteTrace, StrayTrace, memory, locks, history, OneHolder
<1>5. ASSUME NEW c \in Traces, IndexTrace(c)  PROVE TraceTypes'
  <2>1. trace' \in [Traces -> TracePlaces]
    BY <1>5, <1>a DEF IndexTrace, At, TracePlaces
  <2>. QED  BY <1>5, <2>1 DEF IndexTrace, disk, locks, history, OneHolder
<1>6. ASSUME NEW c \in Traces, SaveIndex(c)  PROVE TraceTypes'
  <2>1. trace' \in [Traces -> TracePlaces] /\ writeErrors' \in 0..MaxWriteErrors
    BY <1>6, <1>a, FailureCounts DEF SaveIndex, At, TracePlaces
  <2>2. OneHolder(indexLock') /\ indexFile' = {}
    BY <1>6, <1>c DEF SaveIndex
  <2>. QED  BY <1>6, <2>1, <2>2 DEF SaveIndex, memory, history, OneHolder
<1>7. ASSUME NEW c \in Traces, ReadIndex(c)  PROVE TraceTypes'
  <2>1. trace' \in [Traces -> TracePlaces] /\ OneHolder(indexLock')
    BY <1>7, <1>a, <1>c DEF ReadIndex, At, TracePlaces
  <2>. QED  BY <1>7, <2>1 DEF ReadIndex, memory, disk, history, OneHolder
<1>8. ASSUME NEW c \in Traces, NEW statistics \in BOOLEAN, ReadReturns(c, statistics)
      PROVE  TraceTypes'
  <2>1. trace' \in [Traces -> TracePlaces] /\ OneHolder(indexLock')
    BY <1>8, <1>a, <1>b DEF ReadReturns, At, TracePlaces
  <2>. QED  BY <1>8, <2>1 DEF ReadReturns, memory, disk, history, OneHolder
<1>9. ASSUME NEW c \in Traces, DropTrace(c)  PROVE TraceTypes'
  <2>1. trace' \in [Traces -> TracePlaces]
    BY <1>9 DEF DropTrace, TracePlaces
  <2>2. OneHolder(stateLock') /\ OneHolder(indexLock')
    BY <1>9, <1>b DEF DropTrace
  <2>. QED  BY <1>9, <2>1, <2>2 DEF DropTrace, memory, disk, OneHolder
<1>10. ASSUME NEW c \in Traces, StrayWrite(c)  PROVE TraceTypes'
  <2>1. trace' \in [Traces -> TracePlaces] /\ writeErrors' \in 0..MaxWriteErrors
    BY <1>10, <1>a, FailureCounts DEF StrayWrite, At, TracePlaces
  <2>2. stateFile' \subseteq Traces /\ snapshot' \in [Traces -> SUBSET Traces]
    BY <1>10 DEF StrayWrite, Written, Outcome, Remains
  <2>. QED  BY <1>10, <2>1, <2>2 DEF StrayWrite, Written, memory, locks, OneHolder
<1>11. ASSUME RestartServer  PROVE TraceTypes'
  <2>1. trace' \in [Traces -> TracePlaces] /\ snapshot' \in [Traces -> SUBSET Traces]
    BY <1>11 DEF RestartServer, TracePlaces
  <2>2. runs' \in 1..MaxRuns
    BY <1>11, TraceAssumption DEF RestartServer
  <2>. QED  BY <1>11, <2>1, <2>2 DEF RestartServer, OneHolder
<1>12. ASSUME UNCHANGED traceVars  PROVE TraceTypes'
  BY <1>12 DEF traceVars, memory, disk, locks, history, OneHolder
<1>. QED
  BY <1>1, <1>2, <1>3, <1>4, <1>5, <1>6, <1>7, <1>8, <1>9, <1>10, <1>11, <1>12 DEF TraceNext

-----------------------------------------------------------------------------
(* What the records rely on. *)

\* A trace's file is not touched by what traces of other names write.
LEMMA OthersFiled ==
  ASSUME TraceTypes, NotedInMemory, UNCHANGED operations, NEW c \in Traces, trace[c] \in Noted,
         NEW content, FileOf(c, content), NEW d \in Traces \ {c}, Filed(d)
  PROVE  Filed(d)'
<1>1. c \in operations /\ NameOf[c] \in Names /\ NameOf[d] \in Names
  BY DEF NotedInMemory, Names
<1>2. CASE NameOf[d] = NameOf[c]
  BY <1>1, <1>2 DEF Filed, Namesakes
<1>3. CASE NameOf[d] # NameOf[c]
  <2>1. traceFile'[NameOf[d]] = traceFile[NameOf[d]]
    BY <1>1, <1>3 DEF FileOf, TraceTypes
  <2>. QED  BY <2>1 DEF Filed, Namesakes
<1>. QED  BY <1>2, <1>3

LEMMA RecordInvStep == TraceTypes /\ RecordInv /\ [TraceNext]_traceVars => RecordInv'
<1>. SUFFICES ASSUME TraceTypes, RecordInv, [TraceNext]_traceVars  PROVE RecordInv'
  OBVIOUS
<1>. DEFINE Goal == /\ IndexedLast' /\ NotedInMemory' /\ SaverLocks' /\ StrayKnown' /\ SavedInFile'
                    /\ WrittenIsFiled'
<1>0. SUFFICES Goal
  BY DEF RecordInv
<1>. USE DEF TraceTypes, RecordInv, Noted, Saved
<1>1. ASSUME NEW c \in Traces, RecordOperation(c)  PROVE Goal
  <2>. USE <1>1 DEF RecordOperation, disk, locks, history
  <2>1. /\ trace[c] = "idle" /\ trace'[c] = "noted"
        /\ \A d \in Traces : d # c => trace'[d] = trace[d]
    BY DEF At
  <2>2. IndexedLast' /\ NotedInMemory' /\ StrayKnown' /\ SavedInFile'
    BY <2>1 DEF IndexedLast, NotedInMemory, StrayKnown, SavedInFile
  <2>3. SaverLocks'
    BY <2>1 DEF SaverLocks
  <2>4. WrittenIsFiled'
    BY <2>1 DEF WrittenIsFiled, Filed, Namesakes
  <2>. QED  BY <2>2, <2>3, <2>4
<1>2. ASSUME NEW c \in Traces, SaveThreadState(c)  PROVE Goal
  <2>. USE <1>2 DEF SaveThreadState, memory, disk
  <2>1. /\ trace[c] = "noted" /\ trace'[c] = "saving"
        /\ \A d \in Traces : d # c => trace'[d] = trace[d]
    BY DEF At
  <2>2. IndexedLast' /\ NotedInMemory' /\ SavedInFile'
    BY <2>1 DEF IndexedLast, NotedInMemory, SavedInFile
  <2>3. StrayKnown'
    BY <2>1 DEF StrayKnown, Strays
  <2>4. SaverLocks'
    BY <2>1 DEF SaverLocks
  <2>5. WrittenIsFiled'
    BY <2>1 DEF WrittenIsFiled, Filed, Namesakes
  <2>. QED  BY <2>2, <2>3, <2>4, <2>5
<1>3. ASSUME NEW c \in Traces, ThreadStateSaved(c)  PROVE Goal
  <2>. USE <1>3 DEF ThreadStateSaved, memory, Written
  <2>1. /\ trace[c] = "saving" /\ trace'[c] \in {"saved", "answered"}
        /\ \A d \in Traces : d # c => trace'[d] = trace[d]
        /\ beside' = beside \ {c}
    BY DEF At, WriteFails
  <2>2. /\ snapshot[c] = operations /\ stateLock = {c}
        /\ \A d \in Traces : trace[d] = "saving" => d = c
    BY <2>1 DEF SaverLocks
  <2>3. IndexedLast' /\ NotedInMemory'
    BY <2>1 DEF IndexedLast, NotedInMemory
  <2>4. ASSUME trace'[c] = "saved"  PROVE SavedInFile' /\ StrayKnown'
    <3>1. /\ damaged' = (c \in beside)
          /\ c \notin beside => stateFile' = operations
      BY <2>1, <2>2, <2>4 DEF At, WriteFails, Outcome
    <3>2. SavedInFile'
      BY <2>1, <3>1 DEF SavedInFile, NotedInMemory
    <3>3. StrayKnown'
      BY <2>1, <2>2, <3>1 DEF StrayKnown
    <3>. QED  BY <3>2, <3>3
  <2>5. ASSUME trace'[c] = "answered"  PROVE SavedInFile' /\ StrayKnown'
    <3>1. /\ damaged => damaged'
          /\ ~damaged' => stateFile' = stateFile /\ ~damaged
      BY <2>1, <2>5 DEF At, WriteFails
    <3>2. SavedInFile'
      BY <2>1, <2>5, <3>1 DEF SavedInFile
    <3>3. StrayKnown'
      BY <2>1, <2>2, <2>5, <3>1 DEF StrayKnown
    <3>. QED  BY <3>2, <3>3
  <2>6. SaverLocks'
    BY <2>1, <2>2 DEF SaverLocks
  <2>7. WrittenIsFiled'
    BY <2>1 DEF WrittenIsFiled, Filed, Namesakes
  <2>. QED  BY <2>1, <2>3, <2>4, <2>5, <2>6, <2>7
<1>4. ASSUME NEW c \in Traces, WriteTrace(c) \/ StrayTrace(c)  PROVE Goal
  <2>1. /\ trace[c] \in {"saved", "stray trace"} /\ trace'[c] \in {"written", "answered"}
        /\ \A d \in Traces : d # c => trace'[d] = trace[d]
        /\ UNCHANGED <<memory, stateFile, snapshot, locks, history>>
    BY <1>4 DEF WriteTrace, StrayTrace, At, WriteFails
  <2>. USE DEF memory, locks, history
  <2>2. IndexedLast' /\ NotedInMemory' /\ StrayKnown' /\ SaverLocks'
    BY <2>1 DEF IndexedLast, NotedInMemory, StrayKnown, SaverLocks
  <2>3. SavedInFile'
    <3>1. trace'[c] = "written" => trace[c] = "saved"
      BY <1>4 DEF WriteTrace, StrayTrace, At, WriteFails
    <3>. QED  BY <2>1, <3>1 DEF SavedInFile
  <2>4. PICK content : FileOf(c, content)
    BY <1>4 DEF WriteTrace, StrayTrace
  <2>5. \A d \in Traces \ {c} : Filed(d) => Filed(d)'
    <3>. HIDE DEF TraceTypes
    <3>. QED  BY <2>1, <2>4, OthersFiled
  <2>6. trace'[c] = "written" => Filed(c)'
    <3>1. NameOf[c] \in Names
      BY DEF Names
    <3>. QED  BY <1>4, <2>1, <3>1
         DEF WriteTrace, StrayTrace, At, WriteFails, Outcome, FileOf, Filed, Namesakes
  <2>7. c \notin traceIndex
    BY <2>1 DEF IndexedLast
  <2>8. ASSUME NEW d \in Traces, trace'[d] \in {"written", "indexed", "stuck"} \/ d \in traceIndex'
        PROVE  Filed(d)'
    <3>1. CASE d = c
      BY <2>1, <2>6, <2>7, <2>8, <3>1
    <3>2. CASE d # c
      BY <2>1, <2>5, <2>8, <3>2 DEF WrittenIsFiled
    <3>. QED  BY <3>1, <3>2
  <2>9. WrittenIsFiled'
    BY <2>8 DEF WrittenIsFiled
  <2>. QED  BY <2>2, <2>3, <2>9
<1>5. ASSUME NEW c \in Traces, IndexTrace(c)  PROVE Goal
  <2>. USE <1>5 DEF IndexTrace, disk, locks, history
  <2>1. /\ trace[c] = "written" /\ trace'[c] = "indexed"
        /\ \A d \in Traces : d # c => trace'[d] = trace[d]
    BY DEF At
  <2>2. IndexedLast' /\ NotedInMemory' /\ StrayKnown' /\ SavedInFile' /\ SaverLocks'
    BY <2>1 DEF IndexedLast, NotedInMemory, StrayKnown, SavedInFile, SaverLocks
  <2>3. WrittenIsFiled'
    BY <2>1 DEF WrittenIsFiled, Filed, Namesakes
  <2>. QED  BY <2>2, <2>3
<1>6. ASSUME NEW c \in Traces, SaveIndex(c)  PROVE Goal
  <2>. USE <1>6 DEF SaveIndex, memory, history
  <2>1. /\ trace[c] = "indexed" /\ trace'[c] \in {"stuck", "answered"}
        /\ \A d \in Traces : d # c => trace'[d] = trace[d]
    BY DEF At, WriteFails
  <2>2. IndexedLast' /\ NotedInMemory' /\ StrayKnown' /\ SavedInFile' /\ SaverLocks'
    BY <2>1 DEF IndexedLast, NotedInMemory, StrayKnown, SavedInFile, SaverLocks
  <2>3. WrittenIsFiled'
    BY <2>1 DEF WrittenIsFiled, Filed, Namesakes
  <2>. QED  BY <2>2, <2>3
<1>7. ASSUME NEW c \in Traces, ReadIndex(c) \/ \E statistics \in BOOLEAN : ReadReturns(c, statistics)
      PROVE  Goal
  <2>1. /\ trace[c] \in {"idle", "reading"} /\ trace'[c] \in {"reading", "answered"}
        /\ \A d \in Traces : d # c => trace'[d] = trace[d]
        /\ UNCHANGED <<memory, disk, snapshot, stateLock, history>>
    BY <1>7 DEF ReadIndex, ReadReturns, At
  <2>2. IndexedLast' /\ NotedInMemory' /\ StrayKnown' /\ SavedInFile' /\ SaverLocks'
    BY <2>1 DEF IndexedLast, NotedInMemory, StrayKnown, SavedInFile, SaverLocks, memory, disk,
                history
  <2>3. WrittenIsFiled'
    BY <2>1 DEF WrittenIsFiled, Filed, Namesakes, memory, disk
  <2>. QED  BY <2>2, <2>3
<1>8. ASSUME NEW c \in Traces, DropTrace(c)  PROVE Goal
  <2>. USE <1>8 DEF DropTrace, memory, disk
  <2>1. /\ trace'[c] \in {"stray", "stray trace", "answered"}
        /\ trace'[c] = "stray" => trace[c] = "saving" /\ damaged'
        /\ trace'[c] = "stray trace" => trace[c] = "saved"
        /\ \A d \in Traces : d # c => trace'[d] = trace[d]
        /\ damaged => damaged'
    OBVIOUS
  <2>2. IndexedLast'
    BY <2>1 DEF IndexedLast
  <2>3. NotedInMemory' /\ SavedInFile'
    BY <2>1 DEF NotedInMemory, SavedInFile
  <2>4. StrayKnown'
    <3>1. ASSUME trace[c] = "saving", NEW d \in Traces, trace[d] = "saving"  PROVE d = c
      BY <3>1 DEF SaverLocks
    <3>. QED  BY <2>1, <3>1 DEF StrayKnown
  <2>5. SaverLocks'
    BY <2>1 DEF SaverLocks, Unlocked1
  <2>6. WrittenIsFiled'
    BY <2>1 DEF WrittenIsFiled, Filed, Namesakes
  <2>. QED  BY <2>2, <2>3, <2>4, <2>5, <2>6
<1>9. ASSUME NEW c \in Traces, StrayWrite(c)  PROVE Goal
  <2>. USE <1>9 DEF StrayWrite, memory, locks, Written
  <2>1. /\ trace[c] = "stray" /\ trace'[c] = "answered" /\ damaged'
        /\ \A d \in Traces : d # c => trace'[d] = trace[d]
        /\ beside' = beside \ {c}
    BY DEF At, WriteFails, StrayKnown
  <2>2. IndexedLast' /\ NotedInMemory' /\ StrayKnown' /\ SavedInFile' /\ SaverLocks'
    BY <2>1 DEF IndexedLast, NotedInMemory, StrayKnown, SavedInFile, SaverLocks
  <2>3. WrittenIsFiled'
    BY <2>1 DEF WrittenIsFiled, Filed, Namesakes
  <2>. QED  BY <2>2, <2>3
<1>10. ASSUME RestartServer  PROVE Goal
  <2>1. /\ \A d \in Traces : trace'[d] \in {"idle", "answered"}
        /\ traceIndex' = {}
    BY <1>10 DEF RestartServer
  <2>. QED
    BY <2>1 DEF IndexedLast, NotedInMemory, StrayKnown, SavedInFile, SaverLocks, WrittenIsFiled
<1>11. ASSUME UNCHANGED traceVars  PROVE Goal
  <2>1. /\ trace' = trace /\ snapshot' = snapshot /\ stateLock' = stateLock
        /\ damaged' = damaged /\ beside' = beside
        /\ operations' = operations /\ traceIndex' = traceIndex
        /\ stateFile' = stateFile /\ traceFile' = traceFile
    BY <1>11 DEF traceVars, memory, disk, locks, history
  <2>. QED
    BY <2>1 DEF IndexedLast, NotedInMemory, StrayKnown, SavedInFile, SaverLocks, WrittenIsFiled,
                Filed, Namesakes
<1>. HIDE DEF Goal
<1>. QED
  BY <1>1, <1>2, <1>3, <1>4, <1>5, <1>6, <1>7, <1>8, <1>9, <1>10, <1>11 DEF TraceNext

LEMMA TraceInvariant == TraceSpec => [](TraceTypes /\ RecordInv)
<1>1. TraceTypes /\ RecordInv /\ [TraceNext]_traceVars => (TraceTypes /\ RecordInv)'
  BY TraceTypesStep, RecordInvStep
<1>. QED  BY TraceInitial, <1>1, PTL DEF TraceSpec

\* The calls, the operations in memory and file, the traces, the index and its
\* file and the two mutexes keep their form, and a mutex has one holder at most.
THEOREM TraceTypeCorrect == TraceSpec => []TraceTypeOK
  BY TraceInvariant, TraceTypesImply, PTL

LEMMA RecordInvImplies == TraceTypes /\ RecordInv => RecordIsKept
  BY DEF TraceTypes, RecordInv, SavedInFile, WrittenIsFiled, Filed, Saved, RecordIsKept

\* Whenever no save is under way, the thread's file has the operations of all
\* records that have saved them, and no index entry is without its trace's file:
\* for any number of records, reads, dropped handlers, failing writes and
\* restarts, with the exceptions that RecordIsKept names.
THEOREM RecordsKept == TraceSpec => []RecordIsKept
  BY TraceInvariant, RecordInvImplies, PTL

-----------------------------------------------------------------------------
(***************************************************************************)
(* Proofs about the caches of prompts, for any number of calls and edits.  *)
(*                                                                         *)
(* A call that stores something is not older than a refresh that has gone  *)
(* past it, because a refresh marks whoever has read before it forgets.    *)
(* So whatever the maps hold, and whatever an unmarked call has read, is   *)
(* as new as every refresh that has forgotten the key so far.              *)
(***************************************************************************)

Composed == {"full", "static"}
AfterForgetting == {"lookup", "loading", "storing", "reading", "keeping"}
Reader(d) == use[d].at \in {"storing", "reading", "keeping"} /\ "thread" \notin use[d].key

\* The refreshes of a key that have come to one of these places, and how new the
\* key has to be on their account.
Refreshes(k, places) == {c \in Uses : use[c].reload /\ k \in use[c].key /\ use[c].at \in places}
Floors(k, places) == {floor[k]} \cup {use[c].since : c \in Refreshes(k, places)}

NotAfter(v, w) == v.yaml <= w.yaml /\ v.asset <= w.asset

\* Nobody has seen a file before it was written.
FloorsSeen ==
  /\ \A c \in Uses : NotAfter(use[c].since, edits)
  /\ \A k \in Keys : NotAfter(floor[k], edits)

\* What a call is about at each place.
CallShape ==
  \A d \in Uses :
    /\ use[d].key = {} \/ \E k \in Keys : use[d].key = {k}
    /\ use[d].at \in {"loading", "storing"} => "thread" \notin use[d].key
    /\ Reader(d) => use[d].yaml # {}
    /\ use[d].at = "storing" => \E y \in 0..MaxEdits : use[d].yaml = {y}
    /\ use[d].at = "keeping" /\ "thread" \notin use[d].key =>
         \A v \in use[d].part : v.yaml \in use[d].yaml
    /\ use[d].at \in {"removing", "forgetting"} => use[d].key = {"full"} /\ use[d].reload

CompositionFresh ==
  \A k \in Composed \ overtaken : \A f \in Floors(k, AfterForgetting \cup {"forgetting"}) :
    /\ \A y \in composition : y >= f.yaml
    /\ \A d \in Uses : Reader(d) /\ ~use[d].old => \A y \in use[d].yaml : y >= f.yaml

PartFresh ==
  \A d \in Uses : use[d].at = "keeping" /\ ~use[d].old =>
    \A k \in use[d].key : \A f \in Floors(k, AfterForgetting), v \in use[d].part : v.asset >= f.asset

PromptFresh ==
  \A k \in Keys \ overtaken : \A f \in Floors(k, {"lookup"}), v \in prompt[k] :
    v.asset >= f.asset /\ (k # "thread" => v.yaml >= f.yaml)

\* While a clear is between its two maps nobody fills the first one unmarked.
ClearedStays ==
  ClearUnderWay =>
    /\ \A k \in Composed \ overtaken : prompt[k] = {}
    /\ \A d \in Uses : Reader(d) => use[d].old

CacheInv ==
  /\ CacheTypeOK /\ FloorsSeen /\ CallShape /\ CompositionFresh /\ PartFresh /\ PromptFresh
  /\ ClearedStays

-----------------------------------------------------------------------------
(* Types *)

Versions == [yaml : 0..MaxEdits, asset : 0..MaxEdits]
CachePlaces == {"idle", "lookup", "loading", "storing", "reading", "keeping",
                "removing", "forgetting", "clearing", "done"}
CacheUses == [at : CachePlaces, key : SUBSET Keys, reload : BOOLEAN, since : Versions,
             yaml : SUBSET (0..MaxEdits), part : SUBSET Versions, old : BOOLEAN]

LEMMA CacheTypeParts ==
  CacheTypeOK <=>
    /\ use \in [Uses -> CacheUses] /\ edits \in Versions
    /\ composition \subseteq 0..MaxEdits /\ Cardinality(composition) <= 1
    /\ prompt \in [Keys -> SUBSET Versions] /\ floor \in [Keys -> Versions]
    /\ overtaken \subseteq Keys
BY DEF CacheTypeOK, CacheUses, CachePlaces, Versions

\* A call's fields after a step that sets some of them.
LEMMA OldestForm ==
  /\ Oldest \in Versions /\ NewUse \in CacheUses /\ Finished \in CacheUses
  /\ Finished.at = "done" /\ ~Finished.old /\ Finished.since = Oldest
  /\ Finished.key = {} /\ ~Finished.reload
<1>1. Oldest \in Versions
  BY CacheAssumption DEF Oldest, Versions
<1>2. NewUse \in CacheUses
  BY <1>1 DEF NewUse, CacheUses, CachePlaces
<1>. QED  BY <1>1, <1>2 DEF Finished, NewUse, CacheUses, CachePlaces

\* The calls that a refresh marks, and those it leaves.
LEMMA AgedForm ==
  ASSUME use \in [Uses -> CacheUses], NEW c \in Uses
  PROVE  /\ Aged(c) \in [Uses -> CacheUses]
         /\ Aged(c)[c] = use[c]
         /\ \A d \in Uses \ {c} :
              LET u == Aged(c)[d]
              IN /\ u.at = use[d].at /\ u.key = use[d].key /\ u.reload = use[d].reload
                 /\ u.since = use[d].since /\ u.yaml = use[d].yaml /\ u.part = use[d].part
                 /\ use[d].at \in {"loading", "storing", "reading", "keeping"} => u.old
                 /\ use[d].old => u.old
BY DEF Aged, CacheUses

\* The steps, field by field.  What a step does to the calls that are not its own:
Others(c, marks) ==
  \A d \in Uses \ {c} :
    /\ use'[d].at = use[d].at /\ use'[d].key = use[d].key /\ use'[d].reload = use[d].reload
    /\ use'[d].since = use[d].since /\ use'[d].yaml = use[d].yaml /\ use'[d].part = use[d].part
    /\ use[d].old => use'[d].old
    /\ marks /\ use[d].at \in {"loading", "storing", "reading", "keeping"} => use'[d].old
    /\ ~marks => use'[d].old = use[d].old

\* What its own call keeps.
Goes(c, from, to) ==
  /\ use[c].at = from /\ use'[c].at = to
  /\ use'[c].key = use[c].key /\ use'[c].reload = use[c].reload /\ use'[c].since = use[c].since

BeginsForm(c) ==
  /\ Others(c, FALSE) /\ use'[c].since = edits
  /\ \/ use'[c].at = "lookup" /\ ~use'[c].reload /\ \E k \in Keys : use'[c].key = {k}
     \/ use'[c].at = "loading" /\ ~use'[c].reload /\ use'[c].key = {}
     \/ use'[c].at = "removing" /\ use'[c].reload /\ use'[c].key = {"full"}
  /\ UNCHANGED <<edits, composition, prompt, floor, overtaken>>

ForgetsForm(c) ==
  /\ Others(c, TRUE) /\ Goes(c, "removing", "forgetting")
  /\ composition' = {} /\ UNCHANGED <<edits, prompt, floor, overtaken>>

DropsForm(c) ==
  /\ Others(c, TRUE) /\ Goes(c, "forgetting", "lookup")
  /\ prompt' = [prompt EXCEPT !["full"] = {}]
  /\ UNCHANGED <<edits, composition, floor, overtaken>>

HitForm(c) ==
  /\ Others(c, FALSE) /\ use[c].at = "lookup" /\ use'[c] = Finished /\ Refreshed(c)
  /\ UNCHANGED <<edits, composition, prompt, overtaken>>

MissForm(c) ==
  /\ Others(c, FALSE)
  /\ \/ Goes(c, "lookup", "reading") /\ "thread" \in use[c].key
     \/ Goes(c, "lookup", "loading") /\ "thread" \notin use[c].key
  /\ use'[c].yaml = use[c].yaml
  /\ UNCHANGED <<edits, composition, prompt, floor, overtaken>>

LoadsForm(c) ==
  /\ Others(c, FALSE)
  /\ \/ Goes(c, "loading", "storing") /\ use'[c].yaml = {edits.yaml}
     \/ Goes(c, "loading", "reading") /\ use'[c].yaml = composition /\ composition # {}
  /\ use[c].old \/ ClearUnderWay => use'[c].old
  /\ UNCHANGED <<edits, composition, prompt, floor, overtaken>>

StoresForm(c) ==
  /\ Others(c, FALSE) /\ Goes(c, "storing", "reading")
  /\ use'[c].yaml = use[c].yaml /\ use'[c].old = use[c].old
  /\ composition' = use[c].yaml
  /\ overtaken' = IF use[c].old THEN overtaken \cup {"full", "static"} ELSE overtaken
  /\ UNCHANGED <<edits, prompt, floor>>

ReadsForm(c) ==
  /\ Others(c, FALSE) /\ Goes(c, "reading", "keeping")
  /\ use'[c].yaml = use[c].yaml /\ use'[c].old = use[c].old
  /\ \A v \in use'[c].part : v.asset = edits.asset /\ (use[c].yaml # {} => v.yaml \in use[c].yaml)
  /\ UNCHANGED <<edits, composition, prompt, floor, overtaken>>

EndsForm(c) ==
  /\ Others(c, FALSE) /\ use'[c] = Finished
  /\ UNCHANGED <<edits, composition, prompt, floor, overtaken>>

KeepsForm(c) ==
  /\ Others(c, FALSE) /\ use[c].at = "keeping" /\ use'[c] = Finished /\ Refreshed(c)
  /\ prompt' = [k \in Keys |-> IF k \in use[c].key THEN use[c].part ELSE prompt[k]]
  /\ overtaken' = IF use[c].old THEN overtaken \cup use[c].key ELSE overtaken
  /\ UNCHANGED <<edits, composition>>

ClearsForm(c) ==
  /\ Others(c, TRUE) /\ use'[c].at = "clearing" /\ use'[c].since = edits
  /\ use'[c].key = {} /\ ~use'[c].reload
  /\ prompt' = [prompt EXCEPT !["full"] = {}, !["static"] = {}]
  /\ UNCHANGED <<edits, composition, floor, overtaken>>

ClearedForm(c) ==
  /\ Others(c, TRUE) /\ use[c].at = "clearing" /\ use'[c] = Finished
  /\ composition' = {}
  /\ floor' = [floor EXCEPT !["full"] = use[c].since, !["static"] = use[c].since]
  /\ UNCHANGED <<edits, prompt, overtaken>>

ForgetLoaderForm(c) ==
  /\ Others(c, TRUE) /\ use'[c] = Finished
  /\ prompt' = [prompt EXCEPT !["thread"] = {}]
  /\ floor' = [floor EXCEPT !["thread"] = edits]
  /\ UNCHANGED <<edits, composition, overtaken>>

ReloadForm(c) ==
  /\ Others(c, TRUE) /\ use'[c].at = "reading" /\ use'[c].since = edits
  /\ use'[c].key = {"thread"} /\ use'[c].reload /\ use'[c].yaml = {}
  /\ UNCHANGED <<edits, composition, prompt, floor, overtaken>>

\* Nobody's call moves.
EditForm ==
  /\ use' = use /\ NotAfter(edits, edits')
  /\ UNCHANGED <<composition, prompt, floor, overtaken>>

CacheStep(c) ==
  \/ BeginsForm(c) \/ ForgetsForm(c) \/ DropsForm(c) \/ HitForm(c) \/ MissForm(c) \/ LoadsForm(c)
  \/ StoresForm(c) \/ ReadsForm(c) \/ EndsForm(c) \/ KeepsForm(c) \/ ClearsForm(c)
  \/ ClearedForm(c) \/ ForgetLoaderForm(c) \/ ReloadForm(c)

\* One call's fields are set, and nothing else.
LEMMA PlainForm ==
  ASSUME use \in [Uses -> CacheUses], NEW c \in Uses, NEW u \in CacheUses,
         use' = [use EXCEPT ![c] = u]
  PROVE  use' \in [Uses -> CacheUses] /\ Others(c, FALSE) /\ use'[c] = u
BY DEF Others

\* One call's fields are set and the others are marked.
LEMMA MarkForm ==
  ASSUME use \in [Uses -> CacheUses], NEW c \in Uses, NEW u \in CacheUses,
         use' = [Aged(c) EXCEPT ![c] = u]
  PROVE  use' \in [Uses -> CacheUses] /\ Others(c, TRUE) /\ use'[c] = u
BY AgedForm DEF Others

LEMMA CacheForms ==
  ASSUME CacheTypeOK, CallShape, [CacheNext]_cacheVars
  PROVE  /\ use' \in [Uses -> CacheUses] /\ edits' \in Versions
         /\ EditForm \/ \E c \in Uses : CacheStep(c)
<1>. DEFINE Goal == use' \in [Uses -> CacheUses] /\ (EditForm \/ \E c \in Uses : CacheStep(c))
<1>0. /\ use \in [Uses -> CacheUses] /\ edits \in Versions /\ composition \subseteq 0..MaxEdits
      /\ edits.yaml \in 0..MaxEdits /\ edits.asset \in 0..MaxEdits
      /\ \A c \in Uses : use[c] \in CacheUses
  BY CacheTypeParts DEF Versions
<1>a. ASSUME NEW c \in Uses, CacheStep(c), use' \in [Uses -> CacheUses]  PROVE Goal
  BY <1>a
<1>b. \A c \in Uses, u \in CacheUses : use' = [use EXCEPT ![c] = u] =>
        use' \in [Uses -> CacheUses] /\ Others(c, FALSE) /\ use'[c] = u
  BY <1>0, PlainForm
<1>c. \A c \in Uses, u \in CacheUses : use' = [Aged(c) EXCEPT ![c] = u] =>
        use' \in [Uses -> CacheUses] /\ Others(c, TRUE) /\ use'[c] = u
  BY <1>0, MarkForm
<1>d. \A c \in Uses, place \in CachePlaces :
        /\ [use[c] EXCEPT !.at = place] \in CacheUses
        /\ [use EXCEPT ![c].at = place] = [use EXCEPT ![c] = [use[c] EXCEPT !.at = place]]
        /\ [Aged(c) EXCEPT ![c].at = place] = [Aged(c) EXCEPT ![c] = [use[c] EXCEPT !.at = place]]
  <2>. SUFFICES ASSUME NEW c \in Uses, NEW place \in CachePlaces
                PROVE  /\ [use[c] EXCEPT !.at = place] \in CacheUses
                       /\ [use EXCEPT ![c].at = place] = [use EXCEPT ![c] = [use[c] EXCEPT !.at = place]]
                       /\ [Aged(c) EXCEPT ![c].at = place]
                            = [Aged(c) EXCEPT ![c] = [use[c] EXCEPT !.at = place]]
    BY Zenon
  <2>1. [use[c] EXCEPT !.at = place] \in CacheUses
    BY <1>0 DEF CacheUses
  <2>2. Aged(c)[c] = use[c]
    BY <1>0, AgedForm
  <2>3. [Aged(c) EXCEPT ![c].at = place] = [Aged(c) EXCEPT ![c] = [Aged(c)[c] EXCEPT !.at = place]]
    OBVIOUS
  <2>. QED  BY <2>1, <2>2, <2>3
<1>. HIDE DEF Goal
<1>1. ASSUME NEW file \in {"yaml", "asset"}, EditFile(file)  PROVE Goal
  <2>1. edits' = [edits EXCEPT ![file] = @ + 1]
    BY <1>1 DEF EditFile
  <2>2. NotAfter(edits, edits')
    BY <1>0, <2>1 DEF NotAfter, Versions
  <2>. QED  BY <1>0, <1>1, <2>2 DEF EditFile, EditForm, Goal
<1>2. ASSUME NEW c \in Uses, NEW k \in Keys, BeginUse(c, {k}, FALSE, "lookup")  PROVE Goal
  <2>. DEFINE u == [NewUse EXCEPT !.at = "lookup", !.key = {k}, !.reload = FALSE, !.since = edits]
  <2>1. u \in CacheUses
    BY <1>0, OldestForm DEF CacheUses, NewUse, CachePlaces, Keys, Versions
  <2>2. use' = [use EXCEPT ![c] = u]
    BY <1>2, <1>d DEF BeginUse
  <2>3. use' \in [Uses -> CacheUses] /\ Others(c, FALSE) /\ use'[c] = u
    BY <2>1, <2>2, <1>b
  <2>4. BeginsForm(c)
    BY <1>0, <1>2, <2>3 DEF BeginUse, BeginsForm, NewUse
  <2>. QED  BY <1>a, <2>3, <2>4 DEF CacheStep
<1>3. ASSUME NEW c \in Uses, BeginUse(c, {}, FALSE, "loading")  PROVE Goal
  <2>. DEFINE u == [NewUse EXCEPT !.at = "loading", !.key = {}, !.reload = FALSE, !.since = edits]
  <2>1. u \in CacheUses
    BY <1>0, OldestForm DEF CacheUses, NewUse, CachePlaces, Keys, Versions
  <2>2. use' = [use EXCEPT ![c] = u]
    BY <1>3, <1>d DEF BeginUse
  <2>3. use' \in [Uses -> CacheUses] /\ Others(c, FALSE) /\ use'[c] = u
    BY <2>1, <2>2, <1>b
  <2>4. BeginsForm(c)
    BY <1>0, <1>3, <2>3 DEF BeginUse, BeginsForm, NewUse
  <2>. QED  BY <1>a, <2>3, <2>4 DEF CacheStep
<1>4. ASSUME NEW c \in Uses, BeginUse(c, {"full"}, TRUE, "removing")  PROVE Goal
  <2>. DEFINE u == [NewUse EXCEPT !.at = "removing", !.key = {"full"}, !.reload = TRUE, !.since = edits]
  <2>1. u \in CacheUses
    BY <1>0, OldestForm DEF CacheUses, NewUse, CachePlaces, Keys, Versions
  <2>2. use' = [use EXCEPT ![c] = u]
    BY <1>4, <1>d DEF BeginUse
  <2>3. use' \in [Uses -> CacheUses] /\ Others(c, FALSE) /\ use'[c] = u
    BY <2>1, <2>2, <1>b
  <2>4. BeginsForm(c)
    BY <1>0, <1>4, <2>3 DEF BeginUse, BeginsForm, NewUse
  <2>. QED  BY <1>a, <2>3, <2>4 DEF CacheStep
<1>5. ASSUME NEW c \in Uses, ForgetComposition(c)  PROVE Goal
  <2>. DEFINE u == [use[c] EXCEPT !.at = "forgetting"]
  <2>1. u \in CacheUses
    BY <1>d DEF CachePlaces
  <2>2. use' = [Aged(c) EXCEPT ![c] = u]
    <3>1. use' = [Aged(c) EXCEPT ![c].at = "forgetting"]
      BY <1>5 DEF ForgetComposition
    <3>2. "forgetting" \in CachePlaces
      BY DEF CachePlaces
    <3>. QED  BY <1>d, <3>1, <3>2
  <2>3. use' \in [Uses -> CacheUses] /\ Others(c, TRUE) /\ use'[c] = u
    BY <2>1, <2>2, <1>c
  <2>4. ForgetsForm(c)
    BY <1>0, <1>5, <2>3 DEF ForgetComposition, ForgetsForm, Goes, CacheUses
  <2>. QED  BY <1>a, <2>3, <2>4 DEF CacheStep
<1>6. ASSUME NEW c \in Uses, ForgetPrompt(c)  PROVE Goal
  <2>. DEFINE u == [use[c] EXCEPT !.at = "lookup"]
  <2>1. u \in CacheUses
    BY <1>d DEF CachePlaces
  <2>2. use' = [Aged(c) EXCEPT ![c] = u]
    <3>1. use' = [Aged(c) EXCEPT ![c].at = "lookup"]
      BY <1>6 DEF ForgetPrompt
    <3>2. "lookup" \in CachePlaces
      BY DEF CachePlaces
    <3>. QED  BY <1>d, <3>1, <3>2
  <2>3. use' \in [Uses -> CacheUses] /\ Others(c, TRUE) /\ use'[c] = u
    BY <2>1, <2>2, <1>c
  <2>4. DropsForm(c)
    BY <1>0, <1>6, <2>3 DEF ForgetPrompt, DropsForm, Goes, CacheUses
  <2>. QED  BY <1>a, <2>3, <2>4 DEF CacheStep
<1>7. ASSUME NEW c \in Uses, LookUp(c)  PROVE Goal
  <2>1. PICK k \in use[c].key :
          IF prompt[k] # {} THEN use' = [use EXCEPT ![c] = Finished] /\ Refreshed(c)
          ELSE Step(c, IF k = "thread" THEN "reading" ELSE "loading") /\ UNCHANGED floor
    BY <1>7 DEF LookUp
  <2>2. use[c].key = {k} /\ use[c].at = "lookup" /\ UNCHANGED <<edits, composition, prompt, overtaken>>
    BY <1>7, <2>1 DEF CallShape, LookUp
  <2>3. CASE prompt[k] # {}
    <3>1. use' \in [Uses -> CacheUses] /\ Others(c, FALSE) /\ use'[c] = Finished
      BY <1>b, <2>1, <2>3, OldestForm
    <3>2. HitForm(c)
      BY <2>1, <2>2, <2>3, <3>1 DEF HitForm
    <3>. QED  BY <1>a, <3>1, <3>2 DEF CacheStep
  <2>4. CASE prompt[k] = {}
    <3>. DEFINE place == IF k = "thread" THEN "reading" ELSE "loading"
                u == [use[c] EXCEPT !.at = place]
    <3>1. place \in CachePlaces /\ UNCHANGED floor /\ use' = [use EXCEPT ![c].at = place]
      BY <2>1, <2>4 DEF CachePlaces, Step
    <3>2. u \in CacheUses /\ use' = [use EXCEPT ![c] = u]
      BY <1>d, <3>1
    <3>3. use' \in [Uses -> CacheUses] /\ Others(c, FALSE) /\ use'[c] = u
      BY <1>b, <3>2
    <3>4. MissForm(c)
      BY <1>0, <2>2, <3>1, <3>3 DEF MissForm, Goes, CacheUses
    <3>. QED  BY <1>a, <3>3, <3>4 DEF CacheStep
  <2>. QED  BY <2>3, <2>4
<1>8. ASSUME NEW c \in Uses, use[c].at = "loading", LoadComposition(c, "reading")  PROVE Goal
  <2>. DEFINE place == IF composition # {} THEN "reading" ELSE "storing"
              read == IF composition # {} THEN composition ELSE {edits.yaml}
              u == [use[c] EXCEPT !.at = place, !.yaml = read, !.old = @ \/ ClearUnderWay]
  <2>1. u \in CacheUses /\ use' = [use EXCEPT ![c] = u]
    <3>1. place \in CachePlaces /\ read \in SUBSET (0..MaxEdits) /\ ClearUnderWay \in BOOLEAN
      BY <1>0 DEF CachePlaces, ClearUnderWay
    <3>2. use' = [use EXCEPT ![c].at = place, ![c].yaml = read, ![c].old = @ \/ ClearUnderWay]
      BY <1>8 DEF LoadComposition
    <3>. HIDE DEF place, read
    <3>. QED  BY <1>0, <3>1, <3>2 DEF CacheUses
  <2>2. use' \in [Uses -> CacheUses] /\ Others(c, FALSE) /\ use'[c] = u
    BY <1>b, <2>1
  <2>3. LoadsForm(c)
    <3>1. UNCHANGED <<edits, composition, prompt, floor, overtaken>>
      BY <1>8 DEF LoadComposition
    <3>2. /\ u.at = place /\ u.yaml = read /\ u.key = use[c].key /\ u.since = use[c].since
          /\ u.reload = use[c].reload /\ u.old = (use[c].old \/ ClearUnderWay)
      BY <1>0 DEF CacheUses
    <3>. QED  BY <1>8, <2>2, <3>1, <3>2 DEF LoadsForm, Goes
  <2>. QED  BY <1>a, <2>2, <2>3 DEF CacheStep
<1>9. ASSUME NEW c \in Uses, StoreComposition(c)  PROVE Goal
  <2>. DEFINE u == [use[c] EXCEPT !.at = "reading"]
  <2>1. u \in CacheUses
    BY <1>d DEF CachePlaces
  <2>2. use' = [use EXCEPT ![c] = u]
    BY <1>9, <1>d DEF StoreComposition, Step
  <2>3. use' \in [Uses -> CacheUses] /\ Others(c, FALSE) /\ use'[c] = u
    BY <2>1, <2>2, <1>b
  <2>4. StoresForm(c)
    BY <1>0, <1>9, <2>3 DEF StoreComposition, Step, StoresForm, Goes, CacheUses
  <2>. QED  BY <1>a, <2>3, <2>4 DEF CacheStep
<1>10. ASSUME NEW c \in Uses, ReadAssets(c)  PROVE Goal
  <2>. DEFINE read == {[yaml |-> y, asset |-> edits.asset] :
                         y \in use[c].yaml \cup (IF use[c].yaml = {} THEN {0} ELSE {})}
              u == [use[c] EXCEPT !.at = "keeping", !.part = read]
  <2>1. read \subseteq Versions
    BY <1>0, CacheAssumption DEF CacheUses, Versions
  <2>2. u \in CacheUses /\ use' = [use EXCEPT ![c] = u]
    <3>1. use' = [use EXCEPT ![c].at = "keeping", ![c].part = read]
      BY <1>10 DEF ReadAssets
    <3>. HIDE DEF read
    <3>. QED  BY <1>0, <2>1, <3>1 DEF CacheUses, CachePlaces
  <2>3. use' \in [Uses -> CacheUses] /\ Others(c, FALSE) /\ use'[c] = u
    BY <1>b, <2>2
  <2>4. \A v \in read : v.asset = edits.asset /\ (use[c].yaml # {} => v.yaml \in use[c].yaml)
    OBVIOUS
  <2>5. /\ u.at = "keeping" /\ u.part = read /\ u.key = use[c].key /\ u.since = use[c].since
        /\ u.reload = use[c].reload /\ u.old = use[c].old /\ u.yaml = use[c].yaml
    BY <1>0 DEF CacheUses
  <2>. HIDE DEF u, read
  <2>6. ReadsForm(c)
    BY <1>10, <2>3, <2>4, <2>5 DEF ReadAssets, ReadsForm, Goes
  <2>. QED  BY <1>a, <2>3, <2>6 DEF CacheStep
<1>11. ASSUME NEW c \in Uses, ReadFails(c)  PROVE Goal
  <2>. DEFINE u == Finished
  <2>1. u \in CacheUses
    BY OldestForm
  <2>2. use' = [use EXCEPT ![c] = u]
    BY <1>11, <1>d DEF ReadFails
  <2>3. use' \in [Uses -> CacheUses] /\ Others(c, FALSE) /\ use'[c] = u
    BY <2>1, <2>2, <1>b
  <2>4. EndsForm(c)
    BY <1>0, <1>11, <2>3 DEF ReadFails, EndsForm
  <2>. QED  BY <1>a, <2>3, <2>4 DEF CacheStep
<1>12. ASSUME NEW c \in Uses, KeepPrompt(c)  PROVE Goal
  <2>. DEFINE u == Finished
  <2>1. u \in CacheUses
    BY OldestForm
  <2>2. use' = [use EXCEPT ![c] = u]
    BY <1>12, <1>d DEF KeepPrompt
  <2>3. use' \in [Uses -> CacheUses] /\ Others(c, FALSE) /\ use'[c] = u
    BY <2>1, <2>2, <1>b
  <2>4. KeepsForm(c)
    BY <1>0, <1>12, <2>3 DEF KeepPrompt, KeepsForm
  <2>. QED  BY <1>a, <2>3, <2>4 DEF CacheStep
<1>13. ASSUME NEW c \in Uses, ClearPrompts(c)  PROVE Goal
  <2>. DEFINE u == [NewUse EXCEPT !.at = "clearing", !.since = edits]
  <2>1. u \in CacheUses
    BY <1>0, OldestForm DEF CacheUses, NewUse, CachePlaces, Keys, Versions
  <2>2. use' = [Aged(c) EXCEPT ![c] = u]
    BY <1>13, <1>d DEF ClearPrompts
  <2>3. use' \in [Uses -> CacheUses] /\ Others(c, TRUE) /\ use'[c] = u
    BY <2>1, <2>2, <1>c
  <2>4. ClearsForm(c)
    BY <1>0, <1>13, <2>3 DEF ClearPrompts, ClearsForm, NewUse
  <2>. QED  BY <1>a, <2>3, <2>4 DEF CacheStep
<1>14. ASSUME NEW c \in Uses, ClearCompositions(c)  PROVE Goal
  <2>. DEFINE u == Finished
  <2>1. u \in CacheUses
    BY OldestForm
  <2>2. use' = [Aged(c) EXCEPT ![c] = u]
    BY <1>14, <1>d DEF ClearCompositions
  <2>3. use' \in [Uses -> CacheUses] /\ Others(c, TRUE) /\ use'[c] = u
    BY <2>1, <2>2, <1>c
  <2>4. ClearedForm(c)
    BY <1>0, <1>14, <2>3 DEF ClearCompositions, ClearedForm
  <2>. QED  BY <1>a, <2>3, <2>4 DEF CacheStep
<1>15. ASSUME NEW c \in Uses, ClearLoader(c)  PROVE Goal
  <2>. DEFINE u == Finished
  <2>1. u \in CacheUses
    BY OldestForm
  <2>2. use' = [Aged(c) EXCEPT ![c] = u]
    BY <1>15, <1>d DEF ClearLoader
  <2>3. use' \in [Uses -> CacheUses] /\ Others(c, TRUE) /\ use'[c] = u
    BY <2>1, <2>2, <1>c
  <2>4. ForgetLoaderForm(c)
    BY <1>0, <1>15, <2>3 DEF ClearLoader, ForgetLoaderForm
  <2>. QED  BY <1>a, <2>3, <2>4 DEF CacheStep
<1>16. ASSUME NEW c \in Uses, ReloadLoader(c)  PROVE Goal
  <2>. DEFINE u == [NewUse EXCEPT !.at = "reading", !.key = {"thread"}, !.reload = TRUE, !.since = edits]
  <2>1. u \in CacheUses
    BY <1>0, OldestForm DEF CacheUses, NewUse, CachePlaces, Keys, Versions
  <2>2. use' = [Aged(c) EXCEPT ![c] = u]
    BY <1>16, <1>d DEF ReloadLoader
  <2>3. use' \in [Uses -> CacheUses] /\ Others(c, TRUE) /\ use'[c] = u
    BY <2>1, <2>2, <1>c
  <2>4. ReloadForm(c)
    BY <1>0, <1>16, <2>3 DEF ReloadLoader, ReloadForm, NewUse
  <2>. QED  BY <1>a, <2>3, <2>4 DEF CacheStep
<1>17. ASSUME UNCHANGED cacheVars  PROVE Goal
  BY <1>0, <1>17 DEF cacheVars, EditForm, NotAfter, Versions, Goal
<1>. QED
  <2>1. Goal
    BY <1>1, <1>2, <1>3, <1>4, <1>5, <1>6, <1>7, <1>8, <1>9, <1>10, <1>11, <1>12, <1>13, <1>14,
       <1>15,
       <1>16, <1>17 DEF CacheNext
  <2>2. edits' = edits \/ \E file \in {"yaml", "asset"} : EditFile(file)
    BY DEF CacheNext, cacheVars, BeginUse, ForgetComposition, ForgetPrompt, LookUp, LoadComposition,
       StoreComposition, ReadAssets, ReadFails, KeepPrompt, ClearPrompts, ClearCompositions,
       ClearLoader, ReloadLoader
  <2>3. ASSUME NEW file \in {"yaml", "asset"}, EditFile(file)  PROVE edits' \in Versions
    <3>1. edits' = [edits EXCEPT ![file] = @ + 1] /\ edits.yaml + edits.asset < MaxEdits
      BY <2>3 DEF EditFile
    <3>. QED  BY <1>0, <3>1, CacheAssumption DEF Versions
  <2>. QED  BY <1>0, <2>1, <2>2, <2>3 DEF Goal

LEMMA CacheTypesStep ==
  ASSUME CacheTypeOK, CallShape, [CacheNext]_cacheVars
  PROVE  CacheTypeOK'
<1>0. /\ use \in [Uses -> CacheUses] /\ edits \in Versions
      /\ composition \subseteq 0..MaxEdits /\ Cardinality(composition) <= 1
      /\ prompt \in [Keys -> SUBSET Versions] /\ floor \in [Keys -> Versions]
      /\ overtaken \subseteq Keys /\ \A c \in Uses : use[c] \in CacheUses
  BY CacheTypeParts
<1>1. /\ use' \in [Uses -> CacheUses] /\ edits' \in Versions
      /\ EditForm \/ \E c \in Uses : CacheStep(c)
  BY CacheForms
<1>2. ASSUME NEW c \in Uses
      PROVE  use[c].key \subseteq Keys /\ use[c].since \in Versions /\ use[c].part \subseteq Versions
             /\ use[c].yaml \subseteq 0..MaxEdits
  BY <1>0 DEF CacheUses
<1>3. "full" \in Keys /\ "static" \in Keys /\ "thread" \in Keys
  BY DEF Keys
<1>4. ASSUME NEW c \in Uses, CacheStep(c)
      PROVE  composition' \subseteq 0..MaxEdits /\ Cardinality(composition') <= 1
  <2>1. composition' = composition \/ composition' = {} \/ StoresForm(c)
    BY <1>4 DEF CacheStep, BeginsForm, ForgetsForm, DropsForm, HitForm, MissForm, LoadsForm,
       ReadsForm, EndsForm, KeepsForm, ClearsForm, ClearedForm, ForgetLoaderForm, ReloadForm
  <2>2. CASE StoresForm(c)
    <3>1. PICK y \in 0..MaxEdits : composition' = {y}
      BY <2>2 DEF StoresForm, Goes, CallShape
    <3>. QED  BY <3>1, FS_Singleton
  <2>3. CASE composition' = composition
    BY <1>0, <2>3
  <2>4. CASE composition' = {}
    <3>1. Cardinality(composition') = 0
      BY <2>4, FS_EmptySet
    <3>. QED  BY <2>4, <3>1
  <2>. QED  BY <2>1, <2>2, <2>3, <2>4
<1>5. ASSUME NEW c \in Uses, CacheStep(c)  PROVE overtaken' \subseteq Keys
  BY <1>0, <1>2, <1>3, <1>5 DEF CacheStep, BeginsForm, ForgetsForm, DropsForm, HitForm, MissForm,
     LoadsForm, StoresForm, ReadsForm, EndsForm, KeepsForm, ClearsForm, ClearedForm,
     ForgetLoaderForm, ReloadForm
<1>6. ASSUME NEW c \in Uses, CacheStep(c)  PROVE floor' \in [Keys -> Versions]
  <2>1. \/ floor' = floor \/ Refreshed(c)
        \/ floor' = [floor EXCEPT !["full"] = use[c].since, !["static"] = use[c].since]
        \/ floor' = [floor EXCEPT !["thread"] = edits]
    BY <1>6
       DEF CacheStep, BeginsForm, ForgetsForm, DropsForm, HitForm, MissForm, LoadsForm,
           StoresForm,
       ReadsForm, EndsForm, KeepsForm, ClearsForm, ClearedForm, ForgetLoaderForm, ReloadForm
  <2>. QED  BY <1>0, <1>2, <2>1 DEF Refreshed
<1>7. ASSUME NEW c \in Uses, CacheStep(c)  PROVE prompt' \in [Keys -> SUBSET Versions]
  <2>1. CASE KeepsForm(c)
    <3>1. prompt' = [k \in Keys |-> IF k \in use[c].key THEN use[c].part ELSE prompt[k]]
      BY <2>1 DEF KeepsForm
    <3>. QED  BY <1>0, <1>2, <3>1
  <2>2. CASE ~KeepsForm(c)
    <3>1. \/ prompt' = prompt \/ prompt' = [prompt EXCEPT !["full"] = {}]
          \/ prompt' = [prompt EXCEPT !["full"] = {}, !["static"] = {}]
          \/ prompt' = [prompt EXCEPT !["thread"] = {}]
      BY <1>7, <2>2 DEF CacheStep, BeginsForm, ForgetsForm, DropsForm, HitForm, MissForm, LoadsForm,
         StoresForm, ReadsForm, EndsForm, ClearsForm, ClearedForm, ForgetLoaderForm, ReloadForm
    <3>. QED  BY <1>0, <3>1
  <2>. QED  BY <2>1, <2>2
<1>8. CASE EditForm
  BY <1>0, <1>1, <1>8, CacheTypeParts DEF EditForm, CacheTypeOK, CacheUses, CachePlaces, Versions
<1>9. ASSUME NEW c \in Uses, CacheStep(c)  PROVE CacheTypeOK'
  BY <1>1, <1>4, <1>5, <1>6, <1>7, <1>9 DEF CacheTypeOK, CacheUses, CachePlaces, Versions
<1>. QED  BY <1>1, <1>8, <1>9

LEMMA FloorsSeenStep ==
  ASSUME CacheTypeOK, CallShape, FloorsSeen, [CacheNext]_cacheVars
  PROVE  FloorsSeen'
<1>0. /\ edits \in Versions /\ edits' \in Versions /\ floor \in [Keys -> Versions]
      /\ \A c \in Uses : use[c].since \in Versions
      /\ EditForm \/ \E c \in Uses : CacheStep(c)
  BY CacheTypeParts, CacheForms DEF CacheUses
<1>1. \A v \in Versions : NotAfter(Oldest, v) /\ NotAfter(v, v)
  BY DEF NotAfter, Oldest, Versions
<1>2. CASE EditForm
  BY <1>0, <1>2 DEF EditForm, FloorsSeen, NotAfter, Versions
<1>3. ASSUME NEW c \in Uses, CacheStep(c)  PROVE FloorsSeen'
  <2>1. edits' = edits
    BY <1>3
       DEF CacheStep, BeginsForm, ForgetsForm, DropsForm, HitForm, MissForm, LoadsForm,
           StoresForm,
       ReadsForm, EndsForm, KeepsForm, ClearsForm, ClearedForm, ForgetLoaderForm, ReloadForm
  <2>2. \A d \in Uses \ {c} : use'[d].since = use[d].since
    BY <1>3
       DEF CacheStep, BeginsForm, ForgetsForm, DropsForm, HitForm, MissForm, LoadsForm,
           StoresForm,
       ReadsForm, EndsForm, KeepsForm, ClearsForm, ClearedForm, ForgetLoaderForm, ReloadForm, Others
  <2>3. use'[c].since \in {use[c].since, edits, Oldest}
    BY <1>3, OldestForm
       DEF CacheStep, BeginsForm, ForgetsForm, DropsForm, HitForm, MissForm, LoadsForm,
       StoresForm, ReadsForm, EndsForm, KeepsForm, ClearsForm, ClearedForm, ForgetLoaderForm,
       ReloadForm, Goes
  <2>4. \/ floor' = floor \/ Refreshed(c)
        \/ floor' = [floor EXCEPT !["full"] = use[c].since, !["static"] = use[c].since]
        \/ floor' = [floor EXCEPT !["thread"] = edits]
    BY <1>3
       DEF CacheStep, BeginsForm, ForgetsForm, DropsForm, HitForm, MissForm, LoadsForm,
           StoresForm,
       ReadsForm, EndsForm, KeepsForm, ClearsForm, ClearedForm, ForgetLoaderForm, ReloadForm
  <2>5. \A k \in Keys : floor'[k] \in {floor[k], use[c].since, edits}
    BY <1>0, <2>4 DEF Refreshed, Keys
  <2>. QED  BY <1>0, <1>1, <2>1, <2>2, <2>3, <2>5 DEF FloorsSeen
<1>. QED  BY <1>0, <1>2, <1>3

LEMMA CallShapeStep ==
  ASSUME CacheTypeOK, CallShape, [CacheNext]_cacheVars
  PROVE  CallShape'
<1>0. /\ edits.yaml \in 0..MaxEdits
      /\ EditForm \/ \E c \in Uses : CacheStep(c)
  BY CacheTypeParts, CacheForms DEF Versions
<1>. DEFINE Shape(d) ==
       /\ use[d].key = {} \/ \E k \in Keys : use[d].key = {k}
       /\ use[d].at \in {"loading", "storing"} => "thread" \notin use[d].key
       /\ Reader(d) => use[d].yaml # {}
       /\ use[d].at = "storing" => \E y \in 0..MaxEdits : use[d].yaml = {y}
       /\ use[d].at = "keeping" /\ "thread" \notin use[d].key =>
            \A v \in use[d].part : v.yaml \in use[d].yaml
       /\ use[d].at \in {"removing", "forgetting"} => use[d].key = {"full"} /\ use[d].reload
<1>1. CASE EditForm
  BY <1>1 DEF EditForm, CallShape, Reader
<1>2. ASSUME NEW c \in Uses, CacheStep(c)  PROVE CallShape'
  <2>1. ASSUME NEW d \in Uses \ {c}  PROVE Shape(d)'
    <3>1. /\ use'[d].at = use[d].at /\ use'[d].key = use[d].key /\ use'[d].reload = use[d].reload
          /\ use'[d].yaml = use[d].yaml /\ use'[d].part = use[d].part
      BY <1>2
         DEF CacheStep, BeginsForm, ForgetsForm, DropsForm, HitForm, MissForm, LoadsForm,
             StoresForm,
         ReadsForm, EndsForm, KeepsForm, ClearsForm, ClearedForm, ForgetLoaderForm, ReloadForm, Others
    <3>. QED  BY <3>1 DEF CallShape, Reader
  <2>2. Shape(c)'
    <3>0. Shape(c)
      BY DEF CallShape
    <3>1. CASE BeginsForm(c)
      BY <3>1 DEF BeginsForm, Reader, Keys
    <3>2. CASE ForgetsForm(c) \/ DropsForm(c)
      BY <3>0, <3>2 DEF ForgetsForm, DropsForm, Goes, Reader
    <3>3. CASE HitForm(c) \/ EndsForm(c) \/ KeepsForm(c) \/ ClearedForm(c) \/ ForgetLoaderForm(c)
      <4>1. use'[c] = Finished
        BY <3>3 DEF HitForm, EndsForm, KeepsForm, ClearedForm, ForgetLoaderForm
      <4>. QED  BY <4>1, OldestForm DEF Reader
    <3>4. CASE MissForm(c)
      BY <3>0, <3>4 DEF MissForm, Goes, Reader
    <3>5. CASE LoadsForm(c)
      <4>1. CASE Goes(c, "loading", "storing") /\ use'[c].yaml = {edits.yaml}
        BY <1>0, <3>0, <4>1 DEF Goes, Reader
      <4>2. CASE Goes(c, "loading", "reading") /\ use'[c].yaml = composition /\ composition # {}
        BY <3>0, <4>2 DEF Goes, Reader
      <4>. QED  BY <3>5, <4>1, <4>2 DEF LoadsForm
    <3>6. CASE StoresForm(c)
      BY <3>0, <3>6 DEF StoresForm, Goes, Reader
    <3>7. CASE ReadsForm(c)
      BY <3>0, <3>7 DEF ReadsForm, Goes, Reader
    <3>8. CASE ClearsForm(c) \/ ReloadForm(c)
      BY <3>8 DEF ClearsForm, ReloadForm, Reader, Keys
    <3>. QED  BY <1>2, <3>1, <3>2, <3>3, <3>4, <3>5, <3>6, <3>7, <3>8 DEF CacheStep
  <2>3. \A d \in Uses : Shape(d)'
    BY <2>1, <2>2
  <2>. QED  BY <2>3 DEF CallShape
<1>. QED  BY <1>0, <1>1, <1>2

-----------------------------------------------------------------------------
(* How new the keys have to be *)

Demanded == AfterForgetting \cup {"forgetting"}

\* A step whose call was not before at one of the places, or stays about the same
\* refresh, asks for nothing new.
LEMMA FloorsStay ==
  ASSUME NEW c \in Uses, NEW k \in Keys, NEW places, Others(c, FALSE) \/ Others(c, TRUE),
         use'[c].reload /\ k \in use'[c].key /\ use'[c].at \in places =>
           /\ use[c].reload /\ k \in use[c].key /\ use[c].at \in places
           /\ use'[c].since = use[c].since,
         floor'[k] \in Floors(k, places)
  PROVE  Floors(k, places)' \subseteq Floors(k, places)
BY DEF Floors, Refreshes, Others
\* What the steps do to the demands on a key: only a refresh that comes to forget
\* the key, or one that is over, asks for more.
LEMMA DemandsStay ==
  ASSUME CacheTypeOK, CallShape, NEW c \in Uses, NEW k \in Composed,
         CacheStep(c), ~ForgetsForm(c), ~ClearedForm(c)
  PROVE  Floors(k, Demanded)' \subseteq Floors(k, Demanded)
<1>0. k \in Keys /\ k # "thread" /\ floor \in [Keys -> Versions]
  BY CacheTypeParts DEF Composed, Keys
<1>1. Others(c, FALSE) \/ Others(c, TRUE)
  BY DEF CacheStep, BeginsForm, ForgetsForm, DropsForm, HitForm, MissForm, LoadsForm, StoresForm,
     ReadsForm, EndsForm, KeepsForm, ClearsForm, ClearedForm, ForgetLoaderForm, ReloadForm
<1>2. use'[c].reload /\ k \in use'[c].key /\ use'[c].at \in Demanded =>
        use[c].reload /\ k \in use[c].key /\ use[c].at \in Demanded /\ use'[c].since = use[c].since
  <2>1. CASE HitForm(c) \/ EndsForm(c) \/ KeepsForm(c) \/ ForgetLoaderForm(c)
    <3>1. use'[c] = Finished
      BY <2>1 DEF HitForm, EndsForm, KeepsForm, ForgetLoaderForm
    <3>. QED  BY <3>1, OldestForm
  <2>2. CASE BeginsForm(c) \/ ClearsForm(c) \/ ReloadForm(c)
    BY <1>0, <2>2 DEF BeginsForm, ClearsForm, ReloadForm, Demanded, AfterForgetting
  <2>3. CASE DropsForm(c) \/ MissForm(c) \/ LoadsForm(c) \/ StoresForm(c) \/ ReadsForm(c)
    BY <2>3
       DEF DropsForm, MissForm, LoadsForm, StoresForm, ReadsForm, Goes, Demanded,
           AfterForgetting
  <2>. QED  BY <2>1, <2>2, <2>3 DEF CacheStep
<1>3. floor'[k] \in Floors(k, Demanded)
  <2>1. CASE HitForm(c) \/ KeepsForm(c)
    <3>1. use[c].at \in Demanded /\ Refreshed(c)
      BY <2>1 DEF HitForm, KeepsForm, Demanded, AfterForgetting
    <3>2. floor'[k] = floor[k] \/ (use[c].reload /\ k \in use[c].key /\ floor'[k] = use[c].since)
      BY <1>0, <3>1 DEF Refreshed
    <3>. QED  BY <3>1, <3>2 DEF Floors, Refreshes
  <2>2. CASE ~(HitForm(c) \/ KeepsForm(c))
    <3>1. floor'[k] = floor[k]
      BY <1>0, <2>2 DEF CacheStep, BeginsForm, DropsForm, MissForm, LoadsForm, StoresForm,
         ReadsForm, EndsForm, ClearsForm, ForgetLoaderForm, ReloadForm
    <3>. QED  BY <3>1 DEF Floors
  <2>. QED  BY <2>1, <2>2
<1>. QED  BY <1>0, <1>1, <1>2, <1>3, FloorsStay

\* Every demand has been seen in the files.
LEMMA FloorsSeenAll ==
  ASSUME FloorsSeen, NEW k \in Keys, NEW places, NEW f \in Floors(k, places)
  PROVE  NotAfter(f, edits)
BY DEF FloorsSeen, Floors, Refreshes

LEMMA CompositionFreshStep ==
  ASSUME CacheTypeOK, CallShape, FloorsSeen, CompositionFresh, ClearedStays, [CacheNext]_cacheVars
  PROVE  CompositionFresh'
<1>0. /\ edits \in Versions /\ composition \subseteq 0..MaxEdits /\ overtaken \subseteq Keys
      /\ floor \in [Keys -> Versions]
      /\ \A d \in Uses : use[d].since \in Versions /\ use[d].yaml \subseteq 0..MaxEdits
      /\ EditForm \/ \E c \in Uses : CacheStep(c)
  BY CacheTypeParts, CacheForms DEF CacheUses
<1>1. CASE EditForm
  BY <1>1 DEF EditForm, CompositionFresh, Floors, Refreshes, Reader
<1>2. ASSUME NEW c \in Uses, ForgetsForm(c) \/ ClearedForm(c)  PROVE CompositionFresh'
  <2>1. composition' = {} /\ Others(c, TRUE)
    BY <1>2 DEF ForgetsForm, ClearedForm
  <2>2. use'[c].at \notin {"storing", "reading", "keeping"}
    BY <1>2, OldestForm DEF ForgetsForm, ClearedForm, Goes
  <2>3. ASSUME NEW d \in Uses, Reader(d)'  PROVE use'[d].old
    BY <2>1, <2>2, <2>3 DEF Reader, Others
  <2>. QED  BY <2>1, <2>3 DEF CompositionFresh
<1>3. ASSUME NEW c \in Uses, CacheStep(c), ~ForgetsForm(c), ~ClearedForm(c)
      PROVE  CompositionFresh'
  <2>. SUFFICES ASSUME NEW k \in (Composed \ overtaken)', NEW f \in Floors(k, Demanded)'
                PROVE  /\ \A y \in composition' : y >= f.yaml
                       /\ \A d \in Uses : Reader(d)' /\ ~use'[d].old => \A y \in use'[d].yaml : y >= f.yaml
    BY DEF CompositionFresh, Demanded
  <2>0. k \in Composed /\ k \notin overtaken /\ k \notin overtaken' /\ k \in Keys
    BY <1>3
       DEF CacheStep, BeginsForm, ForgetsForm, DropsForm, HitForm, MissForm, LoadsForm,
           StoresForm,
       ReadsForm, EndsForm, KeepsForm, ClearsForm, ClearedForm, ForgetLoaderForm, ReloadForm,
       Composed, Keys
  <2>1. f \in Floors(k, Demanded)
    BY <1>3, <2>0, DemandsStay
  <2>2. /\ \A y \in composition : y >= f.yaml
        /\ \A d \in Uses : Reader(d) /\ ~use[d].old => \A y \in use[d].yaml : y >= f.yaml
    BY <2>0, <2>1 DEF CompositionFresh, Demanded
  <2>3. edits.yaml >= f.yaml
    <3>1. NotAfter(f, edits) /\ f \in Versions
      BY <1>0, <2>0, <2>1, FloorsSeenAll DEF Floors, Refreshes
    <3>. QED  BY <1>0, <3>1 DEF NotAfter, Versions
  <2>4. \A d \in Uses \ {c} :
          /\ Reader(d)' => Reader(d)
          /\ use'[d].yaml = use[d].yaml
          /\ use[d].old => use'[d].old
    BY <1>3
       DEF CacheStep, BeginsForm, ForgetsForm, DropsForm, HitForm, MissForm, LoadsForm,
           StoresForm,
       ReadsForm, EndsForm, KeepsForm, ClearsForm, ClearedForm, ForgetLoaderForm, ReloadForm,
       Others, Reader
  <2>5. ASSUME NEW y \in composition'  PROVE y >= f.yaml
    <3>1. CASE StoresForm(c)
      <4>1. Reader(c) /\ ~use[c].old
        BY <2>0, <3>1 DEF StoresForm, Goes, Reader, CallShape, Composed
      <4>. QED  BY <2>2, <2>5, <3>1, <4>1 DEF StoresForm
    <3>2. CASE ~StoresForm(c)
      <4>1. composition' = composition
        BY <1>3, <3>2 DEF CacheStep, BeginsForm, DropsForm, HitForm, MissForm, LoadsForm,
           ReadsForm, EndsForm, KeepsForm, ClearsForm, ForgetLoaderForm, ReloadForm
      <4>. QED  BY <2>2, <2>5, <4>1
    <3>. QED  BY <3>1, <3>2
  <2>6. ASSUME Reader(c)', ~use'[c].old, NEW y \in use'[c].yaml  PROVE y >= f.yaml
    <3>1. CASE LoadsForm(c)
      <4>1. y = edits.yaml \/ y \in composition
        BY <2>6, <3>1 DEF LoadsForm
      <4>. QED  BY <2>2, <2>3, <4>1
    <3>2. CASE StoresForm(c) \/ ReadsForm(c)
      <4>1. Reader(c) /\ ~use[c].old /\ use'[c].yaml = use[c].yaml
        BY <2>6, <3>2 DEF StoresForm, ReadsForm, Goes, Reader
      <4>. QED  BY <2>2, <2>6, <4>1
    <3>3. CASE MissForm(c)
      BY <2>6, <3>3 DEF MissForm, Goes, Reader
    <3>4. CASE ~LoadsForm(c) /\ ~StoresForm(c) /\ ~ReadsForm(c) /\ ~MissForm(c)
      BY <1>3, <2>6, <3>4, OldestForm DEF CacheStep, BeginsForm, DropsForm, HitForm, EndsForm,
         KeepsForm, ClearsForm, ForgetLoaderForm, ReloadForm, Goes, Reader
    <3>. QED  BY <3>1, <3>2, <3>3, <3>4
  <2>7. ASSUME NEW d \in Uses \ {c}, Reader(d)', ~use'[d].old, NEW y \in use'[d].yaml
        PROVE  y >= f.yaml
    BY <2>2, <2>4, <2>7
  <2>. QED  BY <2>5, <2>6, <2>7
<1>. QED  BY <1>0, <1>1, <1>2, <1>3
\* The calls that are not the step's own go on as they were.
LEMMA CacheOthers ==
  ASSUME NEW c \in Uses, CacheStep(c), NEW d \in Uses \ {c}
  PROVE  /\ use'[d].at = use[d].at /\ use'[d].key = use[d].key /\ use'[d].reload = use[d].reload
         /\ use'[d].since = use[d].since /\ use'[d].yaml = use[d].yaml /\ use'[d].part = use[d].part
         /\ use[d].old => use'[d].old
BY DEF CacheStep, BeginsForm, ForgetsForm, DropsForm, HitForm, MissForm, LoadsForm, StoresForm,
   ReadsForm, EndsForm, KeepsForm, ClearsForm, ClearedForm, ForgetLoaderForm, ReloadForm, Others

LEMMA OvertakenStays ==
  ASSUME NEW c \in Uses, CacheStep(c)
  PROVE  overtaken \subseteq overtaken'
BY DEF CacheStep, BeginsForm, ForgetsForm, DropsForm, HitForm, MissForm, LoadsForm, StoresForm,
   ReadsForm, EndsForm, KeepsForm, ClearsForm, ClearedForm, ForgetLoaderForm, ReloadForm

\* The steps that mark nobody.
Quiet(c) ==
  \/ BeginsForm(c) \/ HitForm(c) \/ MissForm(c) \/ LoadsForm(c) \/ StoresForm(c)
  \/ ReadsForm(c) \/ EndsForm(c) \/ KeepsForm(c)

\* They ask for nothing that was not asked for after the key had been forgotten.
LEMMA QuietStay ==
  ASSUME CacheTypeOK, CallShape, NEW c \in Uses, Quiet(c), NEW k \in Keys
  PROVE  Floors(k, AfterForgetting)' \subseteq Floors(k, AfterForgetting)
<1>1. Others(c, FALSE)
  BY DEF Quiet, BeginsForm, HitForm, MissForm, LoadsForm, StoresForm, ReadsForm, EndsForm, KeepsForm
<1>2. use'[c].reload /\ k \in use'[c].key /\ use'[c].at \in AfterForgetting =>
        use[c].reload /\ k \in use[c].key /\ use[c].at \in AfterForgetting /\ use'[c].since = use[c].since
  <2>1. CASE HitForm(c) \/ EndsForm(c) \/ KeepsForm(c)
    <3>1. use'[c] = Finished
      BY <2>1 DEF HitForm, EndsForm, KeepsForm
    <3>. QED  BY <3>1, OldestForm
  <2>2. CASE BeginsForm(c)
    BY <2>2 DEF BeginsForm, AfterForgetting
  <2>3. CASE MissForm(c) \/ LoadsForm(c) \/ StoresForm(c) \/ ReadsForm(c)
    BY <2>3 DEF MissForm, LoadsForm, StoresForm, ReadsForm, Goes, AfterForgetting
  <2>. QED  BY <2>1, <2>2, <2>3 DEF Quiet
<1>3. floor'[k] \in Floors(k, AfterForgetting)
  <2>1. CASE HitForm(c) \/ KeepsForm(c)
    <3>1. use[c].at \in AfterForgetting /\ Refreshed(c)
      BY <2>1 DEF HitForm, KeepsForm, AfterForgetting
    <3>2. floor'[k] = floor[k] \/ (use[c].reload /\ k \in use[c].key /\ floor'[k] = use[c].since)
      BY <3>1 DEF Refreshed
    <3>. QED  BY <3>1, <3>2 DEF Floors, Refreshes
  <2>2. CASE ~(HitForm(c) \/ KeepsForm(c))
    <3>1. floor'[k] = floor[k]
      BY <2>2 DEF Quiet, BeginsForm, MissForm, LoadsForm, StoresForm, ReadsForm, EndsForm
    <3>. QED  BY <3>1 DEF Floors
  <2>. QED  BY <2>1, <2>2
<1>. QED  BY <1>1, <1>2, <1>3, FloorsStay

LEMMA PartFreshStep ==
  ASSUME CacheTypeOK, CallShape, FloorsSeen, PartFresh, [CacheNext]_cacheVars
  PROVE  PartFresh'
<1>0. /\ edits \in Versions /\ floor \in [Keys -> Versions] /\ use' \in [Uses -> CacheUses]
      /\ \A d \in Uses : use[d].since \in Versions
      /\ EditForm \/ \E c \in Uses : CacheStep(c)
  BY CacheTypeParts, CacheForms DEF CacheUses
<1>1. CASE EditForm
  BY <1>1 DEF EditForm, PartFresh, Floors, Refreshes
<1>2. ASSUME NEW c \in Uses, CacheStep(c)  PROVE PartFresh'
  <2>. SUFFICES ASSUME NEW d \in Uses, use'[d].at = "keeping", ~use'[d].old, NEW k \in use'[d].key,
                       NEW f \in Floors(k, AfterForgetting)', NEW v \in use'[d].part
                PROVE  v.asset >= f.asset
    BY DEF PartFresh
  <2>0. k \in Keys
    BY <1>0 DEF CacheUses
  <2>1. CASE d = c
    <3>1. ReadsForm(c)
      BY <1>2, <2>1, OldestForm
         DEF CacheStep, BeginsForm, ForgetsForm, DropsForm, HitForm, MissForm,
         LoadsForm, StoresForm, EndsForm, KeepsForm, ClearsForm, ClearedForm, ForgetLoaderForm,
         ReloadForm, Goes
    <3>2. f \in Floors(k, AfterForgetting)
      BY <2>0, <3>1, QuietStay DEF Quiet
    <3>3. NotAfter(f, edits) /\ f \in Versions
      BY <1>0, <2>0, <3>2, FloorsSeenAll DEF Floors, Refreshes
    <3>4. v.asset = edits.asset
      BY <2>1, <3>1 DEF ReadsForm
    <3>. QED  BY <1>0, <3>3, <3>4 DEF NotAfter, Versions
  <2>2. CASE d # c
    <3>1. /\ use[d].at = "keeping" /\ ~use[d].old /\ k \in use[d].key /\ v \in use[d].part
      BY <1>2, <2>2, CacheOthers
    <3>2. Quiet(c)
      BY <1>2, <2>2, <3>1 DEF CacheStep, ForgetsForm, DropsForm, ClearsForm, ClearedForm,
         ForgetLoaderForm, ReloadForm, Others, Quiet
    <3>3. f \in Floors(k, AfterForgetting)
      BY <2>0, <3>2, QuietStay
    <3>. QED  BY <3>1, <3>3 DEF PartFresh
  <2>. QED  BY <2>1, <2>2
<1>. QED  BY <1>0, <1>1, <1>2

LEMMA ClearedStaysStep ==
  ASSUME CacheTypeOK, CallShape, ClearedStays, [CacheNext]_cacheVars
  PROVE  ClearedStays'
<1>0. /\ prompt \in [Keys -> SUBSET Versions]
      /\ EditForm \/ \E c \in Uses : CacheStep(c)
  BY CacheTypeParts, CacheForms
<1>1. CASE EditForm
  BY <1>1 DEF EditForm, ClearedStays, ClearUnderWay, Reader
<1>2. ASSUME NEW c \in Uses, ClearsForm(c)  PROVE ClearedStays'
  <2>1. \A k \in Composed : prompt'[k] = {}
    BY <1>0, <1>2 DEF ClearsForm, Composed, Keys
  <2>2. \A d \in Uses : Reader(d)' => use'[d].old
    BY <1>2 DEF ClearsForm, Others, Reader
  <2>. QED  BY <2>1, <2>2 DEF ClearedStays
<1>3. ASSUME NEW c \in Uses, CacheStep(c), ~ClearsForm(c), ClearUnderWay'  PROVE ClearedStays'
  <2>1. use'[c].at # "clearing"
    BY <1>3, OldestForm
       DEF CacheStep, BeginsForm, ForgetsForm, DropsForm, HitForm, MissForm, LoadsForm,
       StoresForm, ReadsForm, EndsForm, KeepsForm, ClearedForm, ForgetLoaderForm, ReloadForm, Goes
  <2>2. ClearUnderWay
    BY <1>3, <2>1, CacheOthers DEF ClearUnderWay
  <2>3. ASSUME NEW k \in Composed \ overtaken'  PROVE prompt'[k] = {}
    <3>1. k \in Keys /\ k # "thread" /\ prompt[k] = {}
      BY <1>3, <2>2, OvertakenStays DEF ClearedStays, Composed, Keys
    <3>2. CASE KeepsForm(c)
      <4>1. k \notin use[c].key
        <5>1. ASSUME k \in use[c].key  PROVE FALSE
          <6>1. "thread" \notin use[c].key
            BY <3>1, <5>1 DEF CallShape
          <6>2. Reader(c)
            BY <3>2, <6>1 DEF KeepsForm, Reader
          <6>. QED  BY <2>2, <2>3, <3>2, <5>1, <6>2 DEF ClearedStays, KeepsForm
        <5>. QED  BY <5>1
      <4>. QED  BY <3>1, <3>2, <4>1 DEF KeepsForm
    <3>3. CASE ~KeepsForm(c)
      BY <1>0, <1>3, <3>1, <3>3
         DEF CacheStep, BeginsForm, ForgetsForm, DropsForm, HitForm, MissForm,
         LoadsForm, StoresForm, ReadsForm, EndsForm, ClearedForm, ForgetLoaderForm, ReloadForm
    <3>. QED  BY <3>2, <3>3
  <2>4. ASSUME NEW d \in Uses, Reader(d)'  PROVE use'[d].old
    <3>1. CASE d # c
      BY <1>3, <2>2, <2>4, <3>1, CacheOthers DEF ClearedStays, Reader
    <3>2. CASE d = c /\ LoadsForm(c)
      BY <2>2, <3>2 DEF LoadsForm
    <3>3. CASE d = c /\ (StoresForm(c) \/ ReadsForm(c))
      <4>1. Reader(c) /\ use'[c].old = use[c].old
        BY <2>4, <3>3 DEF StoresForm, ReadsForm, Goes, Reader
      <4>. QED  BY <2>2, <3>3, <4>1 DEF ClearedStays
    <3>4. CASE d = c /\ ~LoadsForm(c) /\ ~StoresForm(c) /\ ~ReadsForm(c)
      BY <1>3, <2>4, <3>4, OldestForm DEF CacheStep, BeginsForm, ForgetsForm, DropsForm, HitForm,
         MissForm, EndsForm, KeepsForm, ClearedForm, ForgetLoaderForm, ReloadForm, Goes, Reader
    <3>. QED  BY <3>1, <3>2, <3>3, <3>4
  <2>. QED  BY <2>3, <2>4 DEF ClearedStays
<1>4. ASSUME ~ClearUnderWay'  PROVE ClearedStays'
  BY <1>4 DEF ClearedStays
<1>. QED  BY <1>0, <1>1, <1>2, <1>3, <1>4
LEMMA PromptFreshStep ==
  ASSUME CacheTypeOK, CallShape, CompositionFresh, PartFresh, PromptFresh, ClearedStays,
         [CacheNext]_cacheVars
  PROVE  PromptFresh'
<1>0. /\ prompt \in [Keys -> SUBSET Versions] /\ floor \in [Keys -> Versions]
      /\ \A d \in Uses : use[d].key \subseteq Keys
      /\ EditForm \/ \E c \in Uses : CacheStep(c)
  BY CacheTypeParts, CacheForms DEF CacheUses
<1>1. CASE EditForm
  BY <1>1 DEF EditForm, PromptFresh, Floors, Refreshes
<1>2. ASSUME NEW c \in Uses, CacheStep(c)  PROVE PromptFresh'
  <2>. SUFFICES ASSUME NEW k \in Keys \ overtaken', NEW f \in Floors(k, {"lookup"})', NEW v \in prompt'[k]
                PROVE  v.asset >= f.asset /\ (k # "thread" => v.yaml >= f.yaml)
    BY DEF PromptFresh
  <2>0. k \in Keys \ overtaken
    BY <1>2, OvertakenStays
  <2>1. \A g \in Floors(k, {"lookup"}), w \in prompt[k] :
          w.asset >= g.asset /\ (k # "thread" => w.yaml >= g.yaml)
    BY <2>0 DEF PromptFresh
  <2>2. CASE KeepsForm(c) /\ k \in use[c].key
    <3>1. v \in use[c].part /\ ~use[c].old /\ use[c].at = "keeping"
      BY <2>0, <2>2 DEF KeepsForm
    <3>2. f \in Floors(k, AfterForgetting)
      <4>1. f \in Floors(k, AfterForgetting)'
        BY DEF Floors, Refreshes, AfterForgetting
      <4>. QED  BY <2>2, <4>1, QuietStay DEF Quiet
    <3>3. v.asset >= f.asset
      BY <2>2, <3>1, <3>2 DEF PartFresh
    <3>4. ASSUME k # "thread"  PROVE v.yaml >= f.yaml
      <4>1. "thread" \notin use[c].key /\ k \in Composed
        BY <2>0, <2>2, <3>4 DEF CallShape, Composed, Keys
      <4>2. v.yaml \in use[c].yaml /\ Reader(c)
        BY <3>1, <4>1 DEF CallShape, Reader
      <4>3. f \in Floors(k, AfterForgetting \cup {"forgetting"})
        BY <3>2 DEF Floors, Refreshes
      <4>. QED  BY <2>0, <3>1, <4>1, <4>2, <4>3 DEF CompositionFresh
    <3>. QED  BY <3>3, <3>4
  <2>3. CASE DropsForm(c)
    <3>1. k # "full" /\ prompt'[k] = prompt[k]
      BY <1>0, <2>0, <2>3 DEF DropsForm, Keys
    <3>2. use[c].key = {"full"} /\ Others(c, TRUE) /\ Goes(c, "forgetting", "lookup") /\ floor' = floor
      BY <2>3 DEF CallShape, DropsForm, Goes
    <3>3. Floors(k, {"lookup"})' \subseteq Floors(k, {"lookup"})
      <4>1. k \notin use'[c].key
        BY <3>1, <3>2 DEF Goes
      <4>2. floor'[k] \in Floors(k, {"lookup"})
        BY <3>2 DEF Floors
      <4>. QED  BY <2>0, <3>2, <4>1, <4>2, FloorsStay
    <3>. QED  BY <2>1, <3>1, <3>3
  <2>4. CASE ClearedForm(c)
    <3>1. ClearUnderWay /\ prompt' = prompt
      BY <2>4 DEF ClearedForm, ClearUnderWay
    <3>2. k = "thread"
      BY <2>0, <3>1 DEF ClearedStays, Composed, Keys
    <3>3. Others(c, TRUE) /\ use'[c] = Finished /\ floor'[k] = floor[k]
      BY <1>0, <2>4, <3>2 DEF ClearedForm, Keys
    <3>4. Floors(k, {"lookup"})' \subseteq Floors(k, {"lookup"})
      BY <2>0, <3>3, OldestForm, FloorsStay DEF Floors
    <3>. QED  BY <2>1, <3>1, <3>4
  <2>5. CASE ForgetLoaderForm(c)
    <3>1. k # "thread" /\ prompt'[k] = prompt[k]
      BY <1>0, <2>0, <2>5 DEF ForgetLoaderForm, Keys
    <3>2. Others(c, TRUE) /\ use'[c] = Finished /\ floor'[k] = floor[k]
      BY <1>0, <2>0, <2>5, <3>1 DEF ForgetLoaderForm, Keys
    <3>3. Floors(k, {"lookup"})' \subseteq Floors(k, {"lookup"})
      BY <2>0, <3>2, OldestForm, FloorsStay DEF Floors
    <3>. QED  BY <2>1, <3>1, <3>3
  <2>6. CASE HitForm(c) \/ (KeepsForm(c) /\ k \notin use[c].key)
    <3>1. use'[c] = Finished /\ Others(c, FALSE) /\ prompt'[k] = prompt[k]
      BY <2>0, <2>6 DEF HitForm, KeepsForm
    <3>2. floor'[k] \in Floors(k, {"lookup"})
      BY <2>0, <2>6 DEF HitForm, KeepsForm, Refreshed, Floors, Refreshes
    <3>3. Floors(k, {"lookup"})' \subseteq Floors(k, {"lookup"})
      BY <2>0, <3>1, <3>2, OldestForm, FloorsStay
    <3>. QED  BY <2>1, <3>1, <3>3
  <2>7. CASE \/ BeginsForm(c) \/ ForgetsForm(c) \/ MissForm(c) \/ LoadsForm(c) \/ StoresForm(c)
             \/ ReadsForm(c) \/ EndsForm(c) \/ ClearsForm(c) \/ ReloadForm(c)
    <3>1. /\ Others(c, FALSE) \/ Others(c, TRUE)
          /\ use'[c].reload => use'[c].at # "lookup"
          /\ floor' = floor
      BY <2>7, OldestForm DEF BeginsForm, ForgetsForm, MissForm, LoadsForm, StoresForm, ReadsForm,
         EndsForm, ClearsForm, ReloadForm, Goes
    <3>2. Floors(k, {"lookup"})' \subseteq Floors(k, {"lookup"})
      BY <2>0, <3>1, FloorsStay DEF Floors
    <3>3. prompt'[k] \subseteq prompt[k]
      BY <1>0, <2>0, <2>7 DEF BeginsForm, ForgetsForm, MissForm, LoadsForm, StoresForm, ReadsForm,
         EndsForm, ClearsForm, ReloadForm, Keys
    <3>. QED  BY <2>1, <3>2, <3>3
  <2>. QED  BY <1>2, <2>2, <2>3, <2>4, <2>5, <2>6, <2>7 DEF CacheStep
<1>. QED  BY <1>0, <1>1, <1>2

-----------------------------------------------------------------------------
(* What holds of the caches *)

LEMMA CacheInitOK == CacheInit => CacheInv
<1>. SUFFICES ASSUME CacheInit  PROVE CacheInv
  OBVIOUS
<1>1. /\ use = [c \in Uses |-> NewUse] /\ edits = Oldest /\ composition = {} /\ overtaken = {}
      /\ prompt = [k \in Keys |-> {}] /\ floor = [k \in Keys |-> Oldest]
  BY DEF CacheInit
<1>2. NewUse.at = "idle" /\ NewUse.since = Oldest /\ NewUse.key = {} /\ ~NewUse.reload
  BY DEF NewUse
<1>3. CacheTypeOK
  BY <1>1, OldestForm, CacheTypeParts, FS_EmptySet
<1>4. FloorsSeen
  BY <1>1, <1>2 DEF FloorsSeen, NotAfter, Oldest
<1>5. \A c \in Uses : ~Reader(c) /\ use[c].at = "idle" /\ use[c].key = {}
  BY <1>1, <1>2 DEF Reader
<1>6. CallShape /\ PartFresh /\ ClearedStays
  BY <1>5 DEF CallShape, PartFresh, ClearedStays, ClearUnderWay
<1>7. CompositionFresh
  BY <1>1, <1>5 DEF CompositionFresh
<1>8. PromptFresh
  BY <1>1 DEF PromptFresh
<1>. QED  BY <1>3, <1>4, <1>6, <1>7, <1>8 DEF CacheInv

LEMMA CacheStepOK == CacheInv /\ [CacheNext]_cacheVars => CacheInv'
<1>. SUFFICES ASSUME CacheInv, [CacheNext]_cacheVars  PROVE CacheInv'
  OBVIOUS
<1>1. /\ CacheTypeOK /\ FloorsSeen /\ CallShape /\ CompositionFresh /\ PartFresh /\ PromptFresh
      /\ ClearedStays
  BY DEF CacheInv
<1>2. CacheTypeOK' /\ FloorsSeen' /\ CallShape'
  BY <1>1, CacheTypesStep, FloorsSeenStep, CallShapeStep
<1>3. CompositionFresh' /\ PartFresh' /\ PromptFresh' /\ ClearedStays'
  BY <1>1, CompositionFreshStep, PartFreshStep, PromptFreshStep, ClearedStaysStep
<1>. QED  BY <1>2, <1>3 DEF CacheInv

\* Every state of the caches and of the calls has its type, and no more than one
\* composition is in memory.
THEOREM CacheTypeCorrect == CacheSpec => []CacheTypeOK
<1>1. CacheInv => CacheTypeOK
  BY DEF CacheInv
<1>. QED  BY <1>1, CacheInitOK, CacheStepOK, PTL DEF CacheSpec

\* After a reload or a clear of the caches has returned, a cached prompt was made of
\* nothing older than that call, unless a call that had read before its key was
\* forgotten has stored what it had read: for any number of calls that look up, load,
\* read files, store and keep between the steps of the reload.
THEOREM CachesFresh == CacheSpec => []CacheIsFresh
<1>1. CacheInv => CacheIsFresh
  BY DEF CacheInv, PromptFresh, CacheIsFresh, Floors
<1>. QED  BY <1>1, CacheInitOK, CacheStepOK, PTL DEF CacheSpec

-----------------------------------------------------------------------------
(***************************************************************************)
(* Proofs about the table of running executors, for any number of calls,   *)
(* threads and tasks.                                                      *)
(*                                                                         *)
(* Spawns and ends of tasks race; where they do, the history "raced" says  *)
(* so.  For the other threads a task that is at work has its entry, or its *)
(* spawn is the only one under way, and the table is empty for the thread. *)
(***************************************************************************)

Alive(k) == jobs[k].at \in {"running", "recording", "leaving"}
SpawnsNow(c) == request[c].at \in {"spawning", "handing"}

\* A call that spawns is about one thread, and a task it has started is its own
\* until it has handed it over.
SpawnersOK ==
  \A c \in MCalls :
    /\ SpawnsNow(c) => \E t \in MThreads : request[c].thread = {t}
    /\ request[c].at = "handing" =>
         \E k \in MTasks :
           /\ request[c].task = {k} /\ jobs[k].at # "none" /\ jobs[k].thread = request[c].thread
           /\ \A t \in MThreads : k \notin running[t].task
    /\ \A d \in MCalls \ {c} :
         request[c].at = "handing" /\ request[d].at = "handing" => request[c].task # request[d].task

\* A task is about one thread, and only that thread's entry can name it.
TasksOwn ==
  /\ \A k \in MTasks : jobs[k].at # "none" => \E t \in MThreads : jobs[k].thread = {t}
  /\ \A t \in MThreads : \A k \in running[t].task : jobs[k].thread = {t} /\ jobs[k].at # "none"

\* A thread that nothing has raced for: its entry is alive; a spawn of it is the
\* only one, and finds no entry; and each of its tasks that is at work is in the
\* table or in the hands of that spawn.
Undisturbed(t) ==
  /\ \A k \in running[t].task : Alive(k)
  /\ \A c \in SpawnsOf(t) :
       /\ ~Listed(t) /\ SpawnsOf(t) = {c}
       /\ request[c].at = "handing" => \A k \in request[c].task : Alive(k)
  /\ \A k \in MTasks : Alive(k) /\ jobs[k].thread = {t} =>
       k \in running[t].task \/ \E c \in SpawnsOf(t) : request[c].at = "handing" /\ request[c].task = {k}

ListsOwn == \A c \in MCalls : request[c].due \subseteq request[c].seen

ManagerInv ==
  /\ ManagerTypeOK /\ SpawnersOK /\ TasksOwn /\ \A t \in MThreads \ raced : Undisturbed(t)
  /\ ListsOwn

-----------------------------------------------------------------------------
(* Types *)

RequestForms == [at : {"idle", "storing", "spawning", "handing", "listing", "answered"},
                 thread : SUBSET MThreads, task : SUBSET MTasks,
                 due : SUBSET MThreads, seen : SUBSET MThreads]
HandleForms == [task : SUBSET MTasks, state : {"none", "Running", "Paused"}]
JobForms == [thread : SUBSET MThreads,
             at : {"none", "running", "recording", "leaving", "ended", "aborted"}]

LEMMA ManagerTypeParts ==
  ManagerTypeOK <=>
    /\ request \in [MCalls -> RequestForms] /\ stored \subseteq MThreads
    /\ logged \in [MThreads -> {"none", "open", "final"}]
    /\ running \in [MThreads -> HandleForms] /\ jobs \in [MTasks -> JobForms]
    /\ unread \in 0..MaxUnread /\ raced \subseteq MThreads
BY DEF ManagerTypeOK, RequestForms, HandleForms, JobForms

LEMMA RequestForm ==
  ASSUME request \in [MCalls -> RequestForms], NEW c \in MCalls, NEW u \in RequestForms,
         request' = [request EXCEPT ![c] = u]
  PROVE  /\ request' \in [MCalls -> RequestForms]
         /\ request'[c] = u /\ \A d \in MCalls \ {c} : request'[d] = request[d]
OBVIOUS

\* The steps, seen from the calls that spawn, the tasks and the table.
\* A step of a call that does not spawn.
AsideForm(c) ==
  /\ ~SpawnsNow(c) /\ ~SpawnsNow(c)' /\ \A d \in MCalls \ {c} : request'[d] = request[d]
  /\ UNCHANGED <<jobs, raced>>
  /\ \A t \in MThreads : running'[t].task = running[t].task /\ (running'[t] = NoHandle <=> ~Listed(t))

SpawnForm(c, t) ==
  /\ ~Listed(t) /\ ~SpawnsNow(c) /\ request'[c].at = "spawning" /\ request'[c].thread = {t}
  /\ \A d \in MCalls \ {c} : request'[d] = request[d]
  /\ raced' = IF SpawnsOf(t) # {} THEN raced \cup {t} ELSE raced
  /\ UNCHANGED <<jobs, running>>

StartForm(c, k) ==
  /\ request[c].at = "spawning" /\ jobs[k].at = "none"
  /\ request'[c].at = "handing" /\ request'[c].thread = request[c].thread /\ request'[c].task = {k}
  /\ \A d \in MCalls \ {c} : request'[d] = request[d]
  /\ jobs'[k].thread = request[c].thread /\ jobs'[k].at = "running"
  /\ \A j \in MTasks \ {k} : jobs'[j] = jobs[j]
  /\ UNCHANGED <<running, raced>>

HandForm(c) ==
  /\ request[c].at = "handing" /\ ~SpawnsNow(c)'
  /\ \A d \in MCalls \ {c} : request'[d] = request[d]
  /\ \A t \in request[c].thread : running'[t].task = request[c].task
  /\ \A t \in MThreads \ request[c].thread : running'[t] = running[t]
  /\ UNCHANGED <<jobs, raced>>

CancelForm(c, t) ==
  /\ Listed(t) /\ ~SpawnsNow(c) /\ ~SpawnsNow(c)' /\ \A d \in MCalls \ {c} : request'[d] = request[d]
  /\ running'[t] = NoHandle /\ \A s \in MThreads \ {t} : running'[s] = running[s]
  /\ \A k \in MTasks :
       /\ jobs'[k].thread = jobs[k].thread
       /\ jobs'[k].at = jobs[k].at \/ (k \in running[t].task /\ jobs'[k].at = "aborted")
  /\ \A k \in running[t].task : jobs'[k].at # "running"
  /\ raced' = IF \E k \in running[t].task : jobs'[k].at \in {"recording", "leaving"}
              THEN raced \cup {t} ELSE raced

WorksForm(k) ==
  /\ Alive(k) /\ Alive(k)' /\ jobs'[k].thread = jobs[k].thread
  /\ \A j \in MTasks \ {k} : jobs'[j] = jobs[j]
  /\ UNCHANGED <<request, running, raced>>

LeaveForm(k) ==
  /\ jobs[k].at = "leaving" /\ jobs'[k].at = "ended" /\ jobs'[k].thread = jobs[k].thread
  /\ \A j \in MTasks \ {k} : jobs'[j] = jobs[j]
  /\ \A t \in jobs[k].thread : running'[t] = NoHandle
  /\ \A t \in MThreads \ jobs[k].thread : running'[t] = running[t]
  /\ raced' = raced \cup {t \in jobs[k].thread : SpawnsOf(t) # {} \/ running[t].task # {k}}
  /\ UNCHANGED request

IdleForm == UNCHANGED <<request, jobs, running, raced>>

ManagerStep ==
  \/ \E c \in MCalls : AsideForm(c) \/ HandForm(c)
  \/ \E c \in MCalls, t \in MThreads : SpawnForm(c, t) \/ CancelForm(c, t)
  \/ \E c \in MCalls, k \in MTasks : StartForm(c, k)
  \/ \E k \in MTasks : WorksForm(k) \/ LeaveForm(k)
  \/ IdleForm

LEMMA ManagerForms ==
  ASSUME ManagerTypeOK, [ManagerNext]_managerVars
  PROVE  ManagerTypeOK' /\ ManagerStep
<1>0. /\ request \in [MCalls -> RequestForms] /\ stored \subseteq MThreads
      /\ logged \in [MThreads -> {"none", "open", "final"}]
      /\ running \in [MThreads -> HandleForms] /\ jobs \in [MTasks -> JobForms]
      /\ unread \in 0..MaxUnread /\ raced \subseteq MThreads
      /\ \A c \in MCalls : request[c] \in RequestForms
  BY ManagerTypeParts
<1>n. NoHandle \in HandleForms
  BY DEF NoHandle, HandleForms
<1>. DEFINE Goal == ManagerTypeOK' /\ ManagerStep
            Rest == /\ stored' \subseteq MThreads /\ logged' \in [MThreads -> {"none", "open", "final"}]
                    /\ running' \in [MThreads -> HandleForms] /\ jobs' \in [MTasks -> JobForms]
                    /\ unread' \in 0..MaxUnread /\ raced' \subseteq MThreads
<1>t. ASSUME request' \in [MCalls -> RequestForms], Rest  PROVE ManagerTypeOK'
  BY <1>t DEF ManagerTypeOK, RequestForms, HandleForms, JobForms
<1>a. ASSUME NEW c \in MCalls, NEW u \in RequestForms, request' = [request EXCEPT ![c] = u],
             u.at \notin {"spawning", "handing"}, request[c].at \notin {"spawning", "handing"},
             UNCHANGED <<jobs, raced, running>>, Rest
      PROVE  Goal
  <2>1. /\ request' \in [MCalls -> RequestForms] /\ request'[c] = u
        /\ \A d \in MCalls \ {c} : request'[d] = request[d]
    BY <1>0, <1>a, RequestForm
  <2>. QED  BY <1>a, <1>t, <2>1 DEF AsideForm, ManagerStep, SpawnsNow, Listed
<1>. HIDE DEF Goal
<1>1. ASSUME NEW c \in MCalls, TurnAway(c)  PROVE Goal
  <2>. DEFINE u == [request[c] EXCEPT !.at = "answered", !.thread = {}]
  <2>1. u \in RequestForms /\ request' = [request EXCEPT ![c] = u] /\ request[c].at = "idle"
    BY <1>0, <1>1 DEF TurnAway, Ask, RequestForms
  <2>2. Rest /\ UNCHANGED <<jobs, raced, running>>
    BY <1>0, <1>1 DEF TurnAway
  <2>. QED  BY <1>a, <2>1, <2>2 DEF RequestForms
<1>2. ASSUME NEW c \in MCalls, NEW t \in MThreads, StoreThread(c, t)  PROVE Goal
  <2>. DEFINE u == [request[c] EXCEPT !.at = "storing", !.thread = {t}]
  <2>1. u \in RequestForms /\ request' = [request EXCEPT ![c] = u] /\ request[c].at = "idle"
    BY <1>0, <1>2 DEF StoreThread, Ask, RequestForms
  <2>2. Rest /\ UNCHANGED <<jobs, raced, running>>
    BY <1>0, <1>2 DEF StoreThread
  <2>. QED  BY <1>a, <2>1, <2>2 DEF RequestForms
<1>3. ASSUME NEW c \in MCalls, LogThread(c)  PROVE Goal
  <2>. DEFINE u == [request[c] EXCEPT !.at = "answered"]
  <2>1. u \in RequestForms /\ request' = [request EXCEPT ![c] = u] /\ request[c].at = "storing"
    BY <1>0, <1>3 DEF LogThread, Now, RequestForms
  <2>2. Rest /\ UNCHANGED <<jobs, raced, running>>
    BY <1>0, <1>3 DEF LogThread
  <2>. QED  BY <1>a, <2>1, <2>2 DEF RequestForms
<1>4. ASSUME NEW c \in MCalls, ListRunning(c)  PROVE Goal
  <2>. DEFINE u == [at |-> "listing", thread |-> {}, task |-> {},
                    due |-> {t \in MThreads \ raced : AtWork(t) /\ SpawnsOf(t) = {}},
                    seen |-> {t \in MThreads : Listed(t)}]
  <2>1. u \in RequestForms /\ request' = [request EXCEPT ![c] = u] /\ request[c].at = "idle"
    BY <1>0, <1>4 DEF ListRunning, RequestForms
  <2>2. Rest /\ UNCHANGED <<jobs, raced, running>>
    BY <1>0, <1>4 DEF ListRunning
  <2>. QED  BY <1>a, <2>1, <2>2
<1>5. ASSUME NEW c \in MCalls, NEW t \in MThreads, SkipThread(c, t)  PROVE Goal
  <2>. DEFINE u == [request[c] EXCEPT !.seen = @ \ {t}, !.due = @ \ {t}]
  <2>1. u \in RequestForms /\ request' = [request EXCEPT ![c] = u] /\ request[c].at = "listing"
    BY <1>0, <1>5 DEF SkipThread, RequestForms
  <2>2. Rest /\ UNCHANGED <<jobs, raced, running>>
    BY <1>0, <1>5, ManagerAssumption DEF SkipThread
  <2>. QED  BY <1>a, <2>1, <2>2 DEF RequestForms
<1>6. ASSUME NEW c \in MCalls, ListHistory(c)  PROVE Goal
  <2>. DEFINE u == [request[c] EXCEPT !.at = "answered",
                      !.seen = @ \cup {t \in MThreads : logged[t] = "final"}]
  <2>1. u \in RequestForms /\ request' = [request EXCEPT ![c] = u] /\ request[c].at = "listing"
    BY <1>0, <1>6 DEF ListHistory, RequestForms
  <2>2. Rest /\ UNCHANGED <<jobs, raced, running>>
    BY <1>0, <1>6 DEF ListHistory
  <2>. QED  BY <1>a, <2>1, <2>2 DEF RequestForms
<1>7. ASSUME NEW c \in MCalls, NEW t \in MThreads, SpawnThread(c, t)  PROVE Goal
  <2>. DEFINE u == [request[c] EXCEPT !.at = "spawning", !.thread = {t}]
  <2>1. u \in RequestForms /\ request' = [request EXCEPT ![c] = u] /\ request[c].at = "idle"
    BY <1>0, <1>7 DEF SpawnThread, Ask, RequestForms
  <2>2. Rest
    BY <1>0, <1>7 DEF SpawnThread
  <2>3. SpawnForm(c, t)
    BY <1>0, <1>7, <2>1, RequestForm DEF SpawnThread, SpawnForm, SpawnsNow, RequestForms
  <2>. QED  BY <1>0, <1>t, <2>1, <2>2, <2>3, RequestForm DEF ManagerStep, Goal
<1>8. ASSUME NEW c \in MCalls, StartTask(c)  PROVE Goal
  <2>. DEFINE k == CHOOSE x \in MTasks : jobs[x] = NoWork
              u == [request[c] EXCEPT !.at = "handing", !.task = {k}]
  <2>1. k \in MTasks /\ jobs[k] = NoWork /\ request[c].at = "spawning"
    BY <1>8 DEF StartTask
  <2>2. /\ jobs' = [jobs EXCEPT ![k] = [thread |-> request[c].thread, at |-> "running"]]
        /\ request' = [request EXCEPT ![c].at = "handing", ![c].task = {k}]
        /\ UNCHANGED <<stored, logged, running, unread, raced>>
    BY <1>8 DEF StartTask
  <2>. HIDE DEF k
  <2>3. u \in RequestForms /\ request' = [request EXCEPT ![c] = u]
    BY <1>0, <2>1, <2>2 DEF RequestForms
  <2>4. Rest
    BY <1>0, <2>1, <2>2 DEF RequestForms, JobForms
  <2>5. StartForm(c, k)
    BY <1>0, <2>1, <2>2 DEF StartForm, RequestForms, NoWork
  <2>. QED  BY <1>0, <1>t, <2>1, <2>3, <2>4, <2>5, RequestForm DEF ManagerStep, Goal
<1>9. ASSUME NEW c \in MCalls, HandOver(c)  PROVE Goal
  <2>. DEFINE u == [request[c] EXCEPT !.at = "answered"]
  <2>1. u \in RequestForms /\ request' = [request EXCEPT ![c] = u]
    BY <1>0, <1>9 DEF HandOver, Now, RequestForms
  <2>2. Rest
    BY <1>0, <1>9 DEF HandOver, HandleForms, RequestForms
  <2>3. HandForm(c)
    BY <1>0, <1>9 DEF HandOver, HandForm, Now, SpawnsNow, RequestForms
  <2>. QED  BY <1>0, <1>t, <2>1, <2>2, <2>3, RequestForm DEF ManagerStep, Goal
<1>10. ASSUME NEW c \in MCalls, NEW t \in MThreads, NEW state \in {"Paused", "Running"},
              SetState(c, t, state)
       PROVE  Goal
  <2>. DEFINE u == [request[c] EXCEPT !.at = "answered", !.thread = {}]
  <2>1. u \in RequestForms /\ request' = [request EXCEPT ![c] = u] /\ request[c].at = "idle"
    BY <1>0, <1>10 DEF SetState, Ask, RequestForms
  <2>2. Rest
    BY <1>0, <1>10 DEF SetState, HandleForms
  <2>3. \A s \in MThreads : running'[s].task = running[s].task /\ (running'[s] = NoHandle <=> ~Listed(s))
    BY <1>0, <1>10 DEF SetState, HandleForms, NoHandle, Listed
  <2>4. AsideForm(c)
    BY <1>0, <1>10, <2>1, <2>3 DEF SetState, AsideForm, SpawnsNow, RequestForms
  <2>. QED  BY <1>0, <1>t, <2>1, <2>2, <2>4, RequestForm DEF ManagerStep, Goal
<1>11. ASSUME NEW c \in MCalls, NEW t \in MThreads, NEW aborts \in BOOLEAN, CancelThread(c, t, aborts)
       PROVE  Goal
  <2>. DEFINE u == [request[c] EXCEPT !.at = "answered", !.thread = {}]
              ends(k) == k \in running[t].task /\ (jobs[k].at = "running" \/ (aborts /\ jobs[k].at # "ended"))
  <2>1. u \in RequestForms /\ request' = [request EXCEPT ![c] = u] /\ request[c].at = "idle"
    BY <1>0, <1>11 DEF CancelThread, Ask, RequestForms
  <2>2. /\ jobs' = [k \in MTasks |-> IF ends(k) THEN [jobs[k] EXCEPT !.at = "aborted"] ELSE jobs[k]]
        /\ running' = [running EXCEPT ![t] = NoHandle] /\ Listed(t)
        /\ raced' = IF \E k \in running[t].task : jobs'[k].at \in {"recording", "leaving"}
                    THEN raced \cup {t} ELSE raced
        /\ UNCHANGED <<stored, logged, unread>>
    BY <1>11 DEF CancelThread
  <2>3. \A k \in MTasks :
          /\ jobs'[k] \in JobForms /\ jobs'[k].thread = jobs[k].thread
          /\ jobs'[k].at = IF ends(k) THEN "aborted" ELSE jobs[k].at
    BY <1>0, <2>2 DEF JobForms
  <2>4. u.at = "answered" /\ running[t].task \subseteq MTasks
    BY <1>0 DEF RequestForms, HandleForms
  <2>. HIDE DEF u
  <2>5. Rest
    BY <1>0, <1>n, <2>2, <2>3
  <2>6. /\ request'[c].at = "answered" /\ request[c].at = "idle"
        /\ \A d \in MCalls \ {c} : request'[d] = request[d]
    BY <1>0, <2>1, <2>4, RequestForm
  <2>7. running'[t] = NoHandle /\ \A s \in MThreads \ {t} : running'[s] = running[s]
    BY <1>0, <2>2
  <2>8. CancelForm(c, t)
    BY <2>2, <2>3, <2>4, <2>6, <2>7 DEF CancelForm, SpawnsNow
  <2>. QED  BY <1>0, <1>t, <2>1, <2>5, <2>8, RequestForm DEF ManagerStep, Goal
<1>12. ASSUME NEW k \in MTasks, RunEnds(k) \/ RecordEnd(k) \/ RunFailed(k)  PROVE Goal
  <2>1. Rest
    BY <1>0, <1>12 DEF RunEnds, RecordEnd, RunFailed, JobForms
  <2>2. WorksForm(k)
    BY <1>0, <1>12 DEF RunEnds, RecordEnd, RunFailed, WorksForm, Alive, JobForms
  <2>3. request' \in [MCalls -> RequestForms]
    BY <1>0, <1>12 DEF RunEnds, RecordEnd, RunFailed
  <2>. QED  BY <1>t, <2>1, <2>2, <2>3 DEF ManagerStep, Goal
<1>13. ASSUME NEW k \in MTasks, LeaveTable(k)  PROVE Goal
  <2>1. Rest
    BY <1>0, <1>n, <1>13 DEF LeaveTable, JobForms
  <2>2. LeaveForm(k)
    BY <1>0, <1>13 DEF LeaveTable, LeaveForm, JobForms
  <2>3. request' \in [MCalls -> RequestForms]
    BY <1>0, <1>13 DEF LeaveTable
  <2>. QED  BY <1>t, <2>1, <2>2, <2>3 DEF ManagerStep, Goal
<1>14. ASSUME UNCHANGED managerVars  PROVE Goal
  <2>1. UNCHANGED <<request, stored, logged, running, jobs, unread, raced>>
    BY <1>14 DEF managerVars
  <2>. QED  BY <1>0, <1>t, <2>1 DEF IdleForm, ManagerStep, Goal
<1>15. Goal
  BY <1>1, <1>2, <1>3, <1>4, <1>5, <1>6, <1>7, <1>8, <1>9, <1>10, <1>11, <1>12, <1>13, <1>14
     DEF ManagerNext
<1>. QED  BY <1>15 DEF Goal
-----------------------------------------------------------------------------
(* Spawns, tasks and the table *)

LEMMA TasksOwnStep ==
  ASSUME ManagerTypeOK, SpawnersOK, TasksOwn, ManagerStep
  PROVE  TasksOwn'
<1>0. /\ running \in [MThreads -> HandleForms]
      /\ \A t \in MThreads : running[t].task \subseteq MTasks
  BY ManagerTypeParts DEF HandleForms
<1>1. CASE IdleForm
  BY <1>1 DEF IdleForm, TasksOwn
<1>2. ASSUME NEW c \in MCalls, AsideForm(c)  PROVE TasksOwn'
  BY <1>2 DEF AsideForm, TasksOwn
<1>3. ASSUME NEW c \in MCalls, NEW t \in MThreads, SpawnForm(c, t)  PROVE TasksOwn'
  BY <1>3 DEF SpawnForm, TasksOwn
<1>4. ASSUME NEW c \in MCalls, NEW k \in MTasks, StartForm(c, k)  PROVE TasksOwn'
  <2>1. \E t \in MThreads : request[c].thread = {t}
    BY <1>4 DEF StartForm, SpawnersOK, SpawnsNow
  <2>2. \A j \in MTasks \ {k} : jobs'[j] = jobs[j]
    BY <1>4 DEF StartForm
  <2>3. \A t \in MThreads : k \notin running[t].task
    BY <1>4 DEF StartForm, TasksOwn
  <2>. QED  BY <1>0, <1>4, <2>1, <2>2, <2>3 DEF StartForm, TasksOwn
<1>5. ASSUME NEW c \in MCalls, HandForm(c)  PROVE TasksOwn'
  <2>1. PICK k \in MTasks : /\ request[c].task = {k} /\ jobs[k].at # "none"
                            /\ jobs[k].thread = request[c].thread
    BY <1>5 DEF HandForm, SpawnersOK
  <2>2. PICK t \in MThreads : request[c].thread = {t}
    BY <1>5 DEF HandForm, SpawnersOK, SpawnsNow
  <2>. QED  BY <1>5, <2>1, <2>2 DEF HandForm, TasksOwn
<1>6. ASSUME NEW c \in MCalls, NEW t \in MThreads, CancelForm(c, t)  PROVE TasksOwn'
  <2>1. \A s \in MThreads : running'[s].task \subseteq running[s].task
    BY <1>6 DEF CancelForm, NoHandle
  <2>2. \A k \in MTasks : jobs'[k].thread = jobs[k].thread /\ (jobs'[k].at # "none" <=> jobs[k].at # "none")
    BY <1>6 DEF CancelForm, TasksOwn
  <2>. QED  BY <1>0, <2>1, <2>2 DEF TasksOwn
<1>7. ASSUME NEW k \in MTasks, WorksForm(k)  PROVE TasksOwn'
  <2>1. \A j \in MTasks : jobs'[j].thread = jobs[j].thread /\ (jobs'[j].at # "none" <=> jobs[j].at # "none")
    BY <1>7 DEF WorksForm, Alive
  <2>. QED  BY <1>0, <1>7, <2>1 DEF WorksForm, TasksOwn
<1>8. ASSUME NEW k \in MTasks, LeaveForm(k)  PROVE TasksOwn'
  <2>1. \A j \in MTasks : jobs'[j].thread = jobs[j].thread /\ (jobs'[j].at # "none" <=> jobs[j].at # "none")
    BY <1>8 DEF LeaveForm
  <2>2. \A s \in MThreads : running'[s].task \subseteq running[s].task
    BY <1>8 DEF LeaveForm, NoHandle
  <2>. QED  BY <1>0, <2>1, <2>2 DEF TasksOwn
<1>. QED  BY <1>1, <1>2, <1>3, <1>4, <1>5, <1>6, <1>7, <1>8 DEF ManagerStep

\* A step that takes no task from a call, starts none and puts none in the table.
LEMMA SpawnersStay ==
  ASSUME SpawnersOK,
         \A c \in MCalls :
           /\ SpawnsNow(c)' => request'[c].thread = request[c].thread /\ SpawnsNow(c)
           /\ request'[c].at = "handing" => request[c].at = "handing" /\ request'[c].task = request[c].task,
         \A k \in MTasks : jobs'[k].thread = jobs[k].thread /\ (jobs[k].at # "none" => jobs'[k].at # "none"),
         \A t \in MThreads : running'[t].task \subseteq running[t].task
  PROVE  SpawnersOK'
<1>1. ASSUME NEW c \in MCalls, SpawnsNow(c)'  PROVE \E t \in MThreads : request'[c].thread = {t}
  BY <1>1 DEF SpawnersOK
<1>2. ASSUME NEW c \in MCalls, request'[c].at = "handing"
      PROVE  \E k \in MTasks :
               /\ request'[c].task = {k} /\ jobs'[k].at # "none" /\ jobs'[k].thread = request'[c].thread
               /\ \A t \in MThreads : k \notin running'[t].task
  <2>1. SpawnsNow(c)' /\ request[c].at = "handing" /\ request'[c].task = request[c].task
    BY <1>2 DEF SpawnsNow
  <2>2. PICK k \in MTasks :
          /\ request[c].task = {k} /\ jobs[k].at # "none" /\ jobs[k].thread = request[c].thread
          /\ \A t \in MThreads : k \notin running[t].task
    BY <2>1 DEF SpawnersOK
  <2>. QED  BY <2>1, <2>2
<1>3. ASSUME NEW c \in MCalls, NEW d \in MCalls \ {c}, request'[c].at = "handing", request'[d].at = "handing"
      PROVE  request'[c].task # request'[d].task
  BY <1>3 DEF SpawnersOK
<1>. QED  BY <1>1, <1>2, <1>3 DEF SpawnersOK

LEMMA SpawnersStep ==
  ASSUME ManagerTypeOK, SpawnersOK, TasksOwn, ManagerStep
  PROVE  SpawnersOK'
<1>0. \A t \in MThreads : running[t].task \subseteq MTasks
  BY ManagerTypeParts DEF HandleForms
<1>1. CASE IdleForm
  BY <1>1 DEF IdleForm, SpawnersOK, SpawnsNow
<1>2. ASSUME NEW c \in MCalls, AsideForm(c)  PROVE SpawnersOK'
  <2>1. ASSUME NEW d \in MCalls
        PROVE  /\ SpawnsNow(d)' => request'[d].thread = request[d].thread /\ SpawnsNow(d)
               /\ request'[d].at = "handing" => request[d].at = "handing" /\ request'[d].task = request[d].task
    BY <1>2, d # c \/ d = c DEF AsideForm, SpawnsNow
  <2>. QED  BY <1>2, <2>1, SpawnersStay DEF AsideForm
<1>3. ASSUME NEW c \in MCalls, NEW t \in MThreads, SpawnForm(c, t)  PROVE SpawnersOK'
  <2>1. request'[c].at = "spawning" /\ request'[c].thread = {t} /\ UNCHANGED <<jobs, running>>
        /\ \A d \in MCalls \ {c} : request'[d] = request[d]
    BY <1>3 DEF SpawnForm
  <2>. QED  BY <2>1 DEF SpawnersOK, SpawnsNow
<1>4. ASSUME NEW c \in MCalls, NEW k \in MTasks, StartForm(c, k)  PROVE SpawnersOK'
  <2>1. /\ request[c].at = "spawning" /\ jobs[k].at = "none"
        /\ request'[c].at = "handing" /\ request'[c].thread = request[c].thread /\ request'[c].task = {k}
        /\ \A d \in MCalls \ {c} : request'[d] = request[d]
        /\ jobs'[k].thread = request[c].thread /\ jobs'[k].at = "running" /\ running' = running
        /\ \A j \in MTasks \ {k} : jobs'[j] = jobs[j]
    BY <1>4 DEF StartForm
  <2>2. \A t \in MThreads : k \notin running[t].task
    BY <2>1 DEF TasksOwn
  <2>3. \A d \in MCalls \ {c} : request[d].at = "handing" =>
          \E j \in MTasks \ {k} :
            /\ request[d].task = {j} /\ jobs[j].at # "none" /\ jobs[j].thread = request[d].thread
            /\ \A t \in MThreads : j \notin running[t].task
    BY <2>1 DEF SpawnersOK
  <2>4. ASSUME NEW d \in MCalls, SpawnsNow(d)'  PROVE \E t \in MThreads : request'[d].thread = {t}
    BY <2>1, <2>4 DEF SpawnersOK, SpawnsNow
  <2>5. ASSUME NEW d \in MCalls, request'[d].at = "handing"
        PROVE  \E j \in MTasks :
                 /\ request'[d].task = {j} /\ jobs'[j].at # "none" /\ jobs'[j].thread = request'[d].thread
                 /\ \A t \in MThreads : j \notin running'[t].task
    <3>1. CASE d = c
      BY <2>1, <2>2, <3>1
    <3>2. CASE d # c
      BY <2>1, <2>3, <2>5, <3>2
    <3>. QED  BY <3>1, <3>2
  <2>6. ASSUME NEW d \in MCalls, NEW e \in MCalls \ {d}, request'[d].at = "handing", request'[e].at = "handing"
        PROVE  request'[d].task # request'[e].task
    <3>1. CASE d # c /\ e # c
      BY <2>1, <2>6, <3>1 DEF SpawnersOK
    <3>2. CASE d = c \/ e = c
      BY <2>1, <2>3, <2>6, <3>2
    <3>. QED  BY <3>1, <3>2
  <2>. QED  BY <2>4, <2>5, <2>6 DEF SpawnersOK
<1>5. ASSUME NEW c \in MCalls, HandForm(c)  PROVE SpawnersOK'
  <2>1. /\ request[c].at = "handing" /\ ~SpawnsNow(c)' /\ jobs' = jobs
        /\ \A d \in MCalls \ {c} : request'[d] = request[d]
        /\ \A t \in MThreads : running'[t].task \in {running[t].task, request[c].task}
    BY <1>5 DEF HandForm
  <2>2. ASSUME NEW d \in MCalls, request'[d].at = "handing"
        PROVE  \E k \in MTasks :
                 /\ request'[d].task = {k} /\ jobs'[k].at # "none" /\ jobs'[k].thread = request'[d].thread
                 /\ \A t \in MThreads : k \notin running'[t].task
    <3>1. d # c /\ request'[d] = request[d] /\ request[d].at = "handing"
      BY <2>1, <2>2 DEF SpawnsNow
    <3>2. request[c].task # request[d].task
      BY <2>1, <3>1 DEF SpawnersOK
    <3>3. PICK k \in MTasks :
            /\ request[d].task = {k} /\ jobs[k].at # "none" /\ jobs[k].thread = request[d].thread
            /\ \A t \in MThreads : k \notin running[t].task
      BY <3>1 DEF SpawnersOK
    <3>4. \E j \in MTasks : request[c].task = {j}
      BY <2>1 DEF SpawnersOK
    <3>. QED  BY <2>1, <3>1, <3>2, <3>3, <3>4
  <2>3. ASSUME NEW d \in MCalls, SpawnsNow(d)'  PROVE \E t \in MThreads : request'[d].thread = {t}
    BY <2>1, <2>3 DEF SpawnersOK, SpawnsNow
  <2>4. ASSUME NEW d \in MCalls, NEW e \in MCalls \ {d}, request'[d].at = "handing", request'[e].at = "handing"
        PROVE  request'[d].task # request'[e].task
    BY <2>1, <2>4 DEF SpawnersOK, SpawnsNow
  <2>. QED  BY <2>2, <2>3, <2>4 DEF SpawnersOK
<1>6. ASSUME NEW c \in MCalls, NEW t \in MThreads, CancelForm(c, t)  PROVE SpawnersOK'
  <2>1. ASSUME NEW d \in MCalls
        PROVE  /\ SpawnsNow(d)' => request'[d].thread = request[d].thread /\ SpawnsNow(d)
               /\ request'[d].at = "handing" => request[d].at = "handing" /\ request'[d].task = request[d].task
    BY <1>6, d # c \/ d = c DEF CancelForm, SpawnsNow
  <2>2. \A s \in MThreads : running'[s].task \subseteq running[s].task
    BY <1>6 DEF CancelForm, NoHandle
  <2>3. \A k \in MTasks : jobs'[k].thread = jobs[k].thread /\ (jobs[k].at # "none" => jobs'[k].at # "none")
    BY <1>6 DEF CancelForm
  <2>. QED  BY <2>1, <2>2, <2>3, SpawnersStay
<1>7. ASSUME NEW k \in MTasks, WorksForm(k)  PROVE SpawnersOK'
  <2>1. \A j \in MTasks : jobs'[j].thread = jobs[j].thread /\ (jobs[j].at # "none" => jobs'[j].at # "none")
    BY <1>7 DEF WorksForm, Alive
  <2>2. request' = request /\ running' = running
    BY <1>7 DEF WorksForm
  <2>. QED  BY <2>1, <2>2, SpawnersStay DEF SpawnsNow
<1>8. ASSUME NEW k \in MTasks, LeaveForm(k)  PROVE SpawnersOK'
  <2>1. \A j \in MTasks : jobs'[j].thread = jobs[j].thread /\ (jobs[j].at # "none" => jobs'[j].at # "none")
    BY <1>8 DEF LeaveForm
  <2>2. request' = request /\ \A s \in MThreads : running'[s].task \subseteq running[s].task
    BY <1>8 DEF LeaveForm, NoHandle
  <2>. QED  BY <2>1, <2>2, SpawnersStay DEF SpawnsNow
<1>. QED  BY <1>1, <1>2, <1>3, <1>4, <1>5, <1>6, <1>7, <1>8 DEF ManagerStep
\* What is undisturbed about a thread depends on nothing but its entry, the calls
\* that spawn it and its tasks.
LEMMA UndisturbedStays ==
  ASSUME NEW t \in MThreads, Undisturbed(t), running'[t] = NoHandle <=> ~Listed(t),
         running'[t].task = running[t].task, running[t].task \subseteq MTasks,
         SpawnsOf(t)' = SpawnsOf(t),
         \A c \in SpawnsOf(t) : request'[c].at = request[c].at /\ request'[c].task = request[c].task,
         \A c \in SpawnsOf(t) : request[c].task \subseteq MTasks,
         \A k \in MTasks : Alive(k)' <=> Alive(k),
         \A k \in MTasks : jobs'[k].thread = jobs[k].thread
  PROVE  Undisturbed(t)'
<1>1. \A k \in running'[t].task : Alive(k)'
  BY DEF Undisturbed
<1>2. ASSUME NEW c \in SpawnsOf(t)'
      PROVE  /\ ~Listed(t)' /\ SpawnsOf(t)' = {c}
             /\ request'[c].at = "handing" => \A k \in request'[c].task : Alive(k)'
  BY <1>2 DEF Undisturbed, Listed
<1>3. ASSUME NEW k \in MTasks, Alive(k)', jobs'[k].thread = {t}
      PROVE  \/ k \in running'[t].task
             \/ \E c \in SpawnsOf(t)' : request'[c].at = "handing" /\ request'[c].task = {k}
  BY <1>3 DEF Undisturbed
<1>. QED  BY <1>1, <1>2, <1>3 DEF Undisturbed

LEMMA UndisturbedStep ==
  ASSUME ManagerTypeOK, SpawnersOK, TasksOwn, ManagerStep, NEW t \in MThreads,
         t \notin raced => Undisturbed(t), t \notin raced'
  PROVE  Undisturbed(t)'
<1>0. /\ running[t].task \subseteq MTasks
      /\ \A c \in MCalls : request[c].task \subseteq MTasks /\ request[c].thread \subseteq MThreads
      /\ running \in [MThreads -> HandleForms]
  BY ManagerTypeParts DEF HandleForms, RequestForms
<1>a. t \notin raced /\ Undisturbed(t)
  BY DEF ManagerStep, IdleForm, AsideForm, SpawnForm, StartForm, HandForm, CancelForm,
         WorksForm, LeaveForm
<1>b. ASSUME NEW c \in MCalls, request[c].thread # {t} \/ ~SpawnsNow(c), request'[c].thread # {t} \/ ~SpawnsNow(c)',
             \A d \in MCalls \ {c} : request'[d] = request[d]
      PROVE  /\ SpawnsOf(t)' = SpawnsOf(t)
             /\ \A d \in SpawnsOf(t) : request'[d].at = request[d].at /\ request'[d].task = request[d].task
  BY <1>b DEF SpawnsOf, SpawnsNow
<1>1. CASE IdleForm
  <2>1. UNCHANGED <<request, jobs, running>>
    BY <1>1 DEF IdleForm
  <2>. QED  BY <1>a, <2>1 DEF Undisturbed, Alive, SpawnsOf, Listed
<1>2. ASSUME NEW c \in MCalls, AsideForm(c)  PROVE Undisturbed(t)'
  <2>1. /\ SpawnsOf(t)' = SpawnsOf(t)
        /\ \A d \in SpawnsOf(t) : request'[d].at = request[d].at /\ request'[d].task = request[d].task
    BY <1>2, <1>b DEF AsideForm
  <2>2. /\ jobs' = jobs /\ running'[t].task = running[t].task
        /\ running'[t] = NoHandle <=> ~Listed(t)
    BY <1>2 DEF AsideForm
  <2>3. \A k \in MTasks : (Alive(k)' <=> Alive(k)) /\ jobs'[k].thread = jobs[k].thread
    BY <2>2 DEF Alive
  <2>4. \A d \in SpawnsOf(t) : request[d].task \subseteq MTasks
    BY <1>0 DEF SpawnsOf
  <2>. QED  BY <1>0, <1>a, <2>1, <2>2, <2>3, <2>4, UndisturbedStays
<1>3. ASSUME NEW c \in MCalls, NEW s \in MThreads, SpawnForm(c, s)  PROVE Undisturbed(t)'
  <2>1. /\ ~Listed(s) /\ ~SpawnsNow(c) /\ request'[c].at = "spawning" /\ request'[c].thread = {s}
        /\ \A d \in MCalls \ {c} : request'[d] = request[d]
        /\ raced' = IF SpawnsOf(s) # {} THEN raced \cup {s} ELSE raced
        /\ jobs' = jobs /\ running' = running
    BY <1>3 DEF SpawnForm
  <2>2. \A k \in MTasks : (Alive(k)' <=> Alive(k)) /\ jobs'[k].thread = jobs[k].thread
    BY <2>1 DEF Alive
  <2>3. CASE s # t
    <3>1. /\ SpawnsOf(t)' = SpawnsOf(t)
          /\ \A d \in SpawnsOf(t) : request'[d].at = request[d].at /\ request'[d].task = request[d].task
      BY <1>b, <2>1, <2>3
    <3>2. running'[t] = NoHandle <=> ~Listed(t)
      BY <2>1 DEF Listed
    <3>3. \A d \in SpawnsOf(t) : request[d].task \subseteq MTasks
      BY <1>0 DEF SpawnsOf
    <3>. QED  BY <1>0, <1>a, <2>1, <2>2, <3>1, <3>2, <3>3, UndisturbedStays
  <2>4. CASE s = t
    <3>1. SpawnsOf(t) = {} /\ ~Listed(t)
      BY <2>1, <2>4
    <3>2. SpawnsOf(t)' = {c}
      BY <2>1, <2>4, <3>1 DEF SpawnsOf, SpawnsNow
    <3>3. running[t].task = {}
      BY <3>1 DEF Listed, NoHandle
    <3>4. \A k \in MTasks : ~(Alive(k) /\ jobs[k].thread = {t})
      BY <1>a, <3>1, <3>3 DEF Undisturbed
    <3>5. ~Listed(t)'
      BY <2>1, <3>1 DEF Listed
    <3>. QED  BY <2>1, <2>2, <3>2, <3>3, <3>4, <3>5 DEF Undisturbed
  <2>. QED  BY <2>3, <2>4
<1>4. ASSUME NEW c \in MCalls, NEW j \in MTasks, StartForm(c, j)  PROVE Undisturbed(t)'
  <2>1. /\ request[c].at = "spawning" /\ jobs[j].at = "none"
        /\ request'[c].at = "handing" /\ request'[c].thread = request[c].thread /\ request'[c].task = {j}
        /\ \A d \in MCalls \ {c} : request'[d] = request[d]
        /\ jobs'[j].thread = request[c].thread /\ jobs'[j].at = "running" /\ running' = running
        /\ \A k \in MTasks \ {j} : jobs'[k] = jobs[k]
    BY <1>4 DEF StartForm
  <2>2. SpawnsOf(t)' = SpawnsOf(t)
    BY <2>1 DEF SpawnsOf
  <2>3. \A k \in running[t].task : k # j
    BY <2>1 DEF TasksOwn
  <2>4. \A k \in MTasks \ {j} : (Alive(k)' <=> Alive(k)) /\ jobs'[k].thread = jobs[k].thread
    BY <2>1 DEF Alive
  <2>5. Alive(j)' /\ (Listed(t)' <=> Listed(t))
    BY <2>1 DEF Alive, Listed
  <2>6. \A k \in running'[t].task : Alive(k)'
    BY <1>0, <1>a, <2>1, <2>3, <2>4 DEF Undisturbed
  <2>7. ASSUME NEW d \in SpawnsOf(t)'
        PROVE  /\ ~Listed(t)' /\ SpawnsOf(t)' = {d}
               /\ request'[d].at = "handing" => \A k \in request'[d].task : Alive(k)'
    <3>1. ~Listed(t)' /\ SpawnsOf(t)' = {d}
      BY <1>a, <2>2, <2>5, <2>7 DEF Undisturbed
    <3>2. CASE d = c
      BY <2>1, <2>5, <3>1, <3>2
    <3>3. CASE d # c
      <4>1. d \in MCalls \ {c} /\ request'[d] = request[d]
        BY <2>1, <2>7, <3>3 DEF SpawnsOf
      <4>2. ASSUME request[d].at = "handing", NEW k \in request[d].task  PROVE Alive(k)'
        <5>1. Alive(k) /\ k \in MTasks
          BY <1>0, <1>a, <2>2, <2>7, <4>1, <4>2 DEF Undisturbed
        <5>. QED  BY <2>1, <2>4, <5>1 DEF Alive
      <4>. QED  BY <3>1, <4>1, <4>2
    <3>. QED  BY <3>2, <3>3
  <2>8. ASSUME NEW k \in MTasks, Alive(k)', jobs'[k].thread = {t}
        PROVE  \/ k \in running'[t].task
               \/ \E d \in SpawnsOf(t)' : request'[d].at = "handing" /\ request'[d].task = {k}
    <3>1. CASE k = j
      <4>1. c \in SpawnsOf(t)
        BY <2>1, <2>8, <3>1 DEF SpawnsOf
      <4>. QED  BY <2>1, <2>2, <3>1, <4>1
    <3>2. CASE k # j
      <4>1. \/ k \in running[t].task
            \/ \E d \in SpawnsOf(t) : request[d].at = "handing" /\ request[d].task = {k}
        BY <1>a, <2>4, <2>8, <3>2 DEF Undisturbed
      <4>. QED  BY <2>1, <2>2, <4>1 DEF SpawnsOf
    <3>. QED  BY <3>1, <3>2
  <2>. QED  BY <2>6, <2>7, <2>8 DEF Undisturbed
<1>5. ASSUME NEW c \in MCalls, HandForm(c)  PROVE Undisturbed(t)'
  <2>1. /\ request[c].at = "handing" /\ ~SpawnsNow(c)' /\ jobs' = jobs
        /\ \A d \in MCalls \ {c} : request'[d] = request[d]
        /\ \A s \in request[c].thread : running'[s].task = request[c].task
        /\ \A s \in MThreads \ request[c].thread : running'[s] = running[s]
    BY <1>5 DEF HandForm
  <2>2. \A k \in MTasks : (Alive(k)' <=> Alive(k)) /\ jobs'[k].thread = jobs[k].thread
    BY <2>1 DEF Alive
  <2>3. PICK s \in MThreads : request[c].thread = {s}
    BY <2>1 DEF SpawnersOK, SpawnsNow
  <2>4. CASE s # t
    <3>1. /\ SpawnsOf(t)' = SpawnsOf(t)
          /\ \A d \in SpawnsOf(t) : request'[d].at = request[d].at /\ request'[d].task = request[d].task
      BY <1>b, <2>1, <2>3, <2>4
    <3>2. running'[t] = running[t] /\ (running'[t] = NoHandle <=> ~Listed(t))
      BY <2>1, <2>3, <2>4 DEF Listed
    <3>3. \A d \in SpawnsOf(t) : request[d].task \subseteq MTasks
      BY <1>0 DEF SpawnsOf
    <3>. QED  BY <1>0, <1>a, <2>1, <2>2, <3>1, <3>2, <3>3, UndisturbedStays
  <2>5. CASE s = t
    <3>1. c \in SpawnsOf(t)
      BY <2>1, <2>3, <2>5 DEF SpawnsOf
    <3>2. SpawnsOf(t) = {c} /\ ~Listed(t) /\ \A k \in request[c].task : Alive(k)
      BY <1>a, <2>1, <3>1 DEF Undisturbed
    <3>3. SpawnsOf(t)' = {}
      BY <2>1, <3>2 DEF SpawnsOf, SpawnsNow
    <3>4. running'[t].task = request[c].task /\ running[t].task = {}
      BY <2>1, <2>3, <2>5, <3>2 DEF Listed, NoHandle
    <3>5. \A k \in MTasks : Alive(k) /\ jobs[k].thread = {t} => k \in request[c].task
      BY <1>a, <3>2, <3>4 DEF Undisturbed
    <3>6. \A k \in running'[t].task : Alive(k)'
      BY <1>0, <2>2, <3>2, <3>4
    <3>. QED  BY <2>2, <3>3, <3>4, <3>5, <3>6 DEF Undisturbed
  <2>. QED  BY <2>4, <2>5
<1>6. ASSUME NEW c \in MCalls, NEW s \in MThreads, CancelForm(c, s)  PROVE Undisturbed(t)'
  <2>1. /\ Listed(s) /\ ~SpawnsNow(c) /\ ~SpawnsNow(c)' /\ \A d \in MCalls \ {c} : request'[d] = request[d]
        /\ running'[s] = NoHandle /\ \A u \in MThreads \ {s} : running'[u] = running[u]
        /\ \A k \in MTasks : /\ jobs'[k].thread = jobs[k].thread
                             /\ jobs'[k].at = jobs[k].at \/ (k \in running[s].task /\ jobs'[k].at = "aborted")
        /\ \A k \in running[s].task : jobs'[k].at # "running"
        /\ raced' = IF \E k \in running[s].task : jobs'[k].at \in {"recording", "leaving"}
                    THEN raced \cup {s} ELSE raced
    BY <1>6 DEF CancelForm
  <2>2. /\ SpawnsOf(t)' = SpawnsOf(t)
        /\ \A d \in SpawnsOf(t) : request'[d].at = request[d].at /\ request'[d].task = request[d].task
    BY <1>b, <2>1
  <2>3. CASE s # t
    <3>1. running'[t] = running[t]
      BY <2>1, <2>3
    <3>2. \A k \in MTasks : jobs[k].thread = {t} => jobs'[k].at = jobs[k].at
      BY <2>1, <2>3 DEF TasksOwn
    <3>3. \A k \in running'[t].task : Alive(k)'
      BY <1>0, <1>a, <3>1, <3>2 DEF Undisturbed, TasksOwn, Alive
    <3>4. ASSUME NEW d \in SpawnsOf(t)
          PROVE  /\ ~Listed(t)' /\ SpawnsOf(t)' = {d}
                 /\ request'[d].at = "handing" => \A k \in request'[d].task : Alive(k)'
      <4>1. ~Listed(t)' /\ SpawnsOf(t)' = {d}
        BY <1>a, <2>2, <3>1 DEF Undisturbed, Listed
      <4>2. ASSUME request[d].at = "handing", NEW k \in request[d].task  PROVE Alive(k)'
        <5>1. d \in MCalls /\ request[d].thread = {t}
          BY DEF SpawnsOf
        <5>2. k \in MTasks /\ jobs[k].thread = {t}
          BY <4>2, <5>1 DEF SpawnersOK
        <5>3. Alive(k)
          BY <1>a, <4>2 DEF Undisturbed
        <5>. QED  BY <3>2, <5>2, <5>3 DEF Alive
      <4>. QED  BY <2>2, <4>1, <4>2
    <3>5. ASSUME NEW k \in MTasks, Alive(k)', jobs'[k].thread = {t}
          PROVE  \/ k \in running'[t].task
                 \/ \E d \in SpawnsOf(t)' : request'[d].at = "handing" /\ request'[d].task = {k}
      <4>1. Alive(k) /\ jobs[k].thread = {t}
        BY <2>1, <3>2, <3>5 DEF Alive
      <4>. QED  BY <1>a, <2>2, <3>1, <4>1 DEF Undisturbed
    <3>. QED  BY <2>2, <3>3, <3>4, <3>5 DEF Undisturbed
  <2>4. CASE s = t
    <3>1. SpawnsOf(t) = {}
      BY <1>a, <2>1, <2>4 DEF Undisturbed
    <3>2. running'[t].task = {}
      BY <2>1, <2>4 DEF NoHandle
    <3>3. ASSUME NEW k \in MTasks, Alive(k)', jobs'[k].thread = {t}  PROVE FALSE
      <4>1. Alive(k) /\ jobs[k].thread = {t}
        BY <2>1, <3>3 DEF Alive
      <4>2. k \in running[s].task
        BY <1>a, <2>4, <3>1, <4>1 DEF Undisturbed
      <4>3. jobs'[k].at \in {"recording", "leaving"}
        BY <2>1, <3>3, <4>2 DEF Alive
      <4>. QED  BY <2>1, <2>4, <4>2, <4>3
    <3>. QED  BY <2>2, <3>1, <3>2, <3>3 DEF Undisturbed
  <2>. QED  BY <2>3, <2>4
<1>7. ASSUME NEW k \in MTasks, WorksForm(k)  PROVE Undisturbed(t)'
  <2>1. \A j \in MTasks : (Alive(j)' <=> Alive(j)) /\ jobs'[j].thread = jobs[j].thread
    BY <1>7 DEF WorksForm, Alive
  <2>2. request' = request /\ running' = running
    BY <1>7 DEF WorksForm
  <2>3. SpawnsOf(t)' = SpawnsOf(t) /\ (running'[t] = NoHandle <=> ~Listed(t))
    BY <2>2 DEF SpawnsOf, Listed
  <2>4. \A d \in SpawnsOf(t) : request[d].task \subseteq MTasks
    BY <1>0 DEF SpawnsOf
  <2>. QED  BY <1>0, <1>a, <2>1, <2>2, <2>3, <2>4, UndisturbedStays
<1>8. ASSUME NEW j \in MTasks, LeaveForm(j)  PROVE Undisturbed(t)'
  <2>1. /\ jobs[j].at = "leaving" /\ jobs'[j].at = "ended" /\ jobs'[j].thread = jobs[j].thread
        /\ \A k \in MTasks \ {j} : jobs'[k] = jobs[k]
        /\ \A s \in jobs[j].thread : running'[s] = NoHandle
        /\ \A s \in MThreads \ jobs[j].thread : running'[s] = running[s]
        /\ raced' = raced \cup {s \in jobs[j].thread : SpawnsOf(s) # {} \/ running[s].task # {j}}
        /\ request' = request
    BY <1>8 DEF LeaveForm
  <2>2. PICK s \in MThreads : jobs[j].thread = {s}
    BY <2>1 DEF TasksOwn
  <2>3. SpawnsOf(t)' = SpawnsOf(t)
    BY <2>1 DEF SpawnsOf
  <2>4. \A k \in MTasks \ {j} : (Alive(k)' <=> Alive(k)) /\ jobs'[k].thread = jobs[k].thread
    BY <2>1 DEF Alive
  <2>5. ~Alive(j)'
    BY <2>1 DEF Alive
  <2>6. CASE s # t
    <3>1. running'[t] = running[t] /\ \A k \in running[t].task : k # j
      BY <2>1, <2>2, <2>6 DEF TasksOwn
    <3>2. \A k \in running'[t].task : Alive(k)'
      BY <1>0, <1>a, <2>4, <3>1 DEF Undisturbed
    <3>3. ASSUME NEW d \in SpawnsOf(t)
          PROVE  /\ ~Listed(t)' /\ SpawnsOf(t)' = {d}
                 /\ request'[d].at = "handing" => \A k \in request'[d].task : Alive(k)'
      <4>1. ~Listed(t)' /\ SpawnsOf(t)' = {d}
        BY <1>a, <2>3, <3>1 DEF Undisturbed, Listed
      <4>2. ASSUME request[d].at = "handing", NEW k \in request[d].task  PROVE Alive(k)'
        <5>1. d \in MCalls /\ request[d].thread = {t}
          BY DEF SpawnsOf
        <5>2. k \in MTasks /\ jobs[k].thread = {t}
          BY <4>2, <5>1 DEF SpawnersOK
        <5>3. Alive(k) /\ k # j
          BY <1>a, <2>2, <2>6, <4>2, <5>2 DEF Undisturbed
        <5>. QED  BY <2>4, <5>2, <5>3
      <4>. QED  BY <2>1, <4>1, <4>2
    <3>4. ASSUME NEW k \in MTasks, Alive(k)', jobs'[k].thread = {t}
          PROVE  \/ k \in running'[t].task
                 \/ \E d \in SpawnsOf(t)' : request'[d].at = "handing" /\ request'[d].task = {k}
      <4>1. Alive(k) /\ jobs[k].thread = {t}
        BY <2>4, <2>5, <3>4
      <4>. QED  BY <1>a, <2>1, <2>3, <3>1, <4>1 DEF Undisturbed
    <3>. QED  BY <2>3, <3>2, <3>3, <3>4 DEF Undisturbed
  <2>7. CASE s = t
    <3>1. SpawnsOf(t) = {} /\ running[t].task = {j}
      BY <2>1, <2>2, <2>7
    <3>2. running'[t].task = {}
      BY <2>1, <2>2, <2>7 DEF NoHandle
    <3>3. ASSUME NEW k \in MTasks, Alive(k)', jobs'[k].thread = {t}  PROVE FALSE
      <4>1. k # j /\ Alive(k) /\ jobs[k].thread = {t}
        BY <2>4, <2>5, <3>3
      <4>. QED  BY <1>a, <3>1, <4>1 DEF Undisturbed
    <3>. QED  BY <2>3, <3>1, <3>2, <3>3 DEF Undisturbed
  <2>. QED  BY <2>6, <2>7
<1>. QED  BY <1>1, <1>2, <1>3, <1>4, <1>5, <1>6, <1>7, <1>8 DEF ManagerStep

\* A thread that is at work and that nothing has raced for is in the table.
LEMMA AtWorkListed ==
  ASSUME ManagerTypeOK, NEW t \in MThreads, Undisturbed(t), AtWork(t), SpawnsOf(t) = {}
  PROVE  Listed(t)
<1>1. PICK k \in MTasks : jobs[k].thread = {t} /\ Alive(k)
  BY DEF AtWork, Alive
<1>2. k \in running[t].task
  BY <1>1 DEF Undisturbed
<1>. QED  BY <1>2 DEF Listed, NoHandle

LEMMA ListsStep ==
  ASSUME ManagerTypeOK, \A t \in MThreads \ raced : Undisturbed(t), ListsOwn, [ManagerNext]_managerVars
  PROVE  ListsOwn'
<1>0. request \in [MCalls -> RequestForms]
  BY ManagerTypeParts
<1>1. ASSUME NEW c \in MCalls,
             \A d \in MCalls \ {c} : request'[d] = request[d],
             request'[c].due \subseteq request'[c].seen
      PROVE  ListsOwn'
  BY <1>1 DEF ListsOwn
<1>2. ASSUME NEW c \in MCalls, ListRunning(c)  PROVE ListsOwn'
  <2>1. request'[c].due = {t \in MThreads \ raced : AtWork(t) /\ SpawnsOf(t) = {}}
        /\ request'[c].seen = {t \in MThreads : Listed(t)}
        /\ \A d \in MCalls \ {c} : request'[d] = request[d]
    BY <1>0, <1>2 DEF ListRunning
  <2>2. \A t \in MThreads \ raced : AtWork(t) /\ SpawnsOf(t) = {} => Listed(t)
    BY AtWorkListed
  <2>. QED  BY <1>1, <2>1, <2>2
<1>3. ASSUME NEW c \in MCalls, NEW t \in MThreads, SkipThread(c, t)  PROVE ListsOwn'
  <2>1. request'[c].due = request[c].due \ {t} /\ request'[c].seen = request[c].seen \ {t}
        /\ \A d \in MCalls \ {c} : request'[d] = request[d]
    BY <1>0, <1>3 DEF SkipThread, RequestForms
  <2>. QED  BY <1>1, <2>1 DEF ListsOwn
<1>4. ASSUME NEW c \in MCalls, ListHistory(c)  PROVE ListsOwn'
  <2>1. request'[c].due = request[c].due /\ request[c].seen \subseteq request'[c].seen
        /\ \A d \in MCalls \ {c} : request'[d] = request[d]
    BY <1>0, <1>4 DEF ListHistory, RequestForms
  <2>. QED  BY <1>1, <2>1 DEF ListsOwn
<1>5. ASSUME NEW c \in MCalls, NEW t \in MThreads,
             \/ StoreThread(c, t) \/ SpawnThread(c, t)
             \/ \E aborts \in BOOLEAN : CancelThread(c, t, aborts)
             \/ \E state \in {"Paused", "Running"} : SetState(c, t, state)
      PROVE  ListsOwn'
  <2>1. request'[c].due = request[c].due /\ request'[c].seen = request[c].seen
        /\ \A d \in MCalls \ {c} : request'[d] = request[d]
    BY <1>0, <1>5 DEF StoreThread, SpawnThread, CancelThread, SetState, Ask, RequestForms
  <2>. QED  BY <1>1, <2>1 DEF ListsOwn
<1>6. ASSUME NEW c \in MCalls, TurnAway(c) \/ LogThread(c) \/ StartTask(c) \/ HandOver(c)
      PROVE  ListsOwn'
  <2>1. request'[c].due = request[c].due /\ request'[c].seen = request[c].seen
        /\ \A d \in MCalls \ {c} : request'[d] = request[d]
    BY <1>0, <1>6 DEF TurnAway, LogThread, StartTask, HandOver, Ask, Now, RequestForms
  <2>. QED  BY <1>1, <2>1 DEF ListsOwn
<1>7. CASE request' = request
  BY <1>7 DEF ListsOwn
<1>8. ASSUME NEW k \in MTasks, RunEnds(k) \/ RecordEnd(k) \/ RunFailed(k) \/ LeaveTable(k)
      PROVE  request' = request
  BY <1>8 DEF RunEnds, RecordEnd, RunFailed, LeaveTable
<1>. QED  BY <1>2, <1>3, <1>4, <1>5, <1>6, <1>7, <1>8 DEF ManagerNext, managerVars

-----------------------------------------------------------------------------
(* What holds of the thread manager *)

LEMMA ManagerInitOK == ManagerInit => ManagerInv
<1>. SUFFICES ASSUME ManagerInit  PROVE ManagerInv
  OBVIOUS
<1>1. /\ request = [c \in MCalls |-> NewRequest] /\ stored \in SUBSET MThreads
      /\ logged = [t \in MThreads |-> "none"] /\ running = [t \in MThreads |-> NoHandle]
      /\ jobs = [k \in MTasks |-> NoWork] /\ unread = 0 /\ raced = {}
  BY DEF ManagerInit
<1>2. NewRequest \in RequestForms /\ NoHandle \in HandleForms /\ NoWork \in JobForms
  BY DEF NewRequest, NoHandle, NoWork, RequestForms, HandleForms, JobForms
<1>3. ManagerTypeOK
  BY <1>1, <1>2, ManagerAssumption, ManagerTypeParts
<1>4. /\ \A c \in MCalls : ~SpawnsNow(c) /\ request[c].at = "idle" /\ request[c].due = {}
      /\ \A t \in MThreads : running[t].task = {}
      /\ \A k \in MTasks : jobs[k].at = "none" /\ ~Alive(k)
  BY <1>1 DEF SpawnsNow, Alive, NewRequest, NoHandle, NoWork
<1>5. SpawnersOK /\ TasksOwn /\ ListsOwn
  BY <1>4 DEF SpawnersOK, TasksOwn, ListsOwn, SpawnsNow
<1>6. ASSUME NEW t \in MThreads  PROVE Undisturbed(t)
  <2>1. SpawnsOf(t) = {}
    BY <1>4 DEF SpawnsOf
  <2>. QED  BY <1>1, <1>4, <2>1 DEF Undisturbed, Alive, NoWork
<1>. QED  BY <1>3, <1>5, <1>6 DEF ManagerInv

LEMMA ManagerStepOK == ManagerInv /\ [ManagerNext]_managerVars => ManagerInv'
<1>. SUFFICES ASSUME ManagerInv, [ManagerNext]_managerVars  PROVE ManagerInv'
  OBVIOUS
<1>1. /\ ManagerTypeOK /\ SpawnersOK /\ TasksOwn /\ ListsOwn
      /\ \A t \in MThreads \ raced : Undisturbed(t)
  BY DEF ManagerInv
<1>2. ManagerTypeOK' /\ ManagerStep
  BY <1>1, ManagerForms
<1>3. SpawnersOK' /\ TasksOwn' /\ ListsOwn'
  BY <1>1, <1>2, SpawnersStep, TasksOwnStep, ListsStep
<1>4. ASSUME NEW t \in MThreads, t \notin raced'  PROVE Undisturbed(t)'
  BY <1>1, <1>2, <1>4, UndisturbedStep
<1>. QED  BY <1>2, <1>3, <1>4 DEF ManagerInv

\* Every state of the thread manager and of its calls has its type.
THEOREM ManagerTypeCorrect == ManagerSpec => []ManagerTypeOK
<1>1. ManagerInv => ManagerTypeOK
  BY DEF ManagerInv
<1>. QED  BY <1>1, ManagerInitOK, ManagerStepOK, PTL DEF ManagerSpec

\* What the table of executors holds for a thread has not ended, unless a spawn of
\* the thread was overtaken by another one or by the end of a task, or an abort came
\* too late: so no thread is refused because of an executor that is gone.
THEOREM EntriesAlive == ManagerSpec => []EntryIsAlive
<1>1. ManagerInv => EntryIsAlive
  BY DEF ManagerInv, Undisturbed, Alive, EntryIsAlive
<1>. QED  BY <1>1, ManagerInitOK, ManagerStepOK, PTL DEF ManagerSpec

\* A list of all threads has every thread that was at work when it was asked for,
\* for any number of tasks that end while the list is made.
THEOREM ListsComplete == ManagerSpec => []ListMissesNone
<1>1. ManagerInv => ListMissesNone
  BY DEF ManagerInv, ListsOwn, ListMissesNone
<1>. QED  BY <1>1, ManagerInitOK, ManagerStepOK, PTL DEF ManagerSpec

-----------------------------------------------------------------------------
(***************************************************************************)
(* Proofs about work on several items, for any number of items, permits    *)
(* and tools.                                                              *)
(*                                                                         *)
(* The records of the actions are counted by the accesses of the storage   *)
(* that were done for them: after 3 * q + r of them the first q actions    *)
(* are on record, and r says how far the next one has come.  What the      *)
(* collector has is whole up to the handle that it awaits.  While a batch  *)
(* has time no task ends, so the tasks that ever worked fit the permits.   *)
(***************************************************************************)

\* An item that has a record has ended.
RecordsFollow == \A i \in Items1 : 3 * i - 2 <= written => ItemEnded(i)

LogCounted ==
  /\ Len(log) = 2 * (written \div 3) + (written % 3)
  /\ \A j \in 1..Len(log) :
       log[j] = <<IF j % 2 = 1 THEN "call" ELSE "result", (j + 1) \div 2>>

FiledLast ==
  \A x \in DOMAIN artifact :
    /\ artifact[x] = 0 \/ (artifact[x] \in Items1 /\ ToolOf[artifact[x]] = x /\ 3 * artifact[x] <= written)
    /\ \A i \in Items1 : ToolOf[i] = x /\ 3 * i <= written => i <= artifact[x]

ToldWhole ==
  /\ ~Actions => written = 0
  /\ Actions /\ answer.at = "ok" => written = 3 * NItems
  /\ answer.at = "pending" => answer.list = <<>>
  /\ answer.list # <<>> => AllEnded /\ InOrder(answer.list, {i \in Items1 : WithResult(i)})

\* Only a batch has a budget, and actions are not dropped.
BudgetOfBatch ==
  /\ timeUp => kind = "batch"
  /\ Actions => \A i \in Items1 : item[i] # "dropped"

\* Every handle before the awaited one was waited for, and has left its result.
CollectedSoFar == {i \in Items1 : i < awaited /\ WithResult(i)}

Collecting ==
  /\ \A i \in Items1 : i < awaited => ItemEnded(i)
  /\ answer.at = "pending" => InOrder(collected, CollectedSoFar)

\* The tasks that got a permit in time.
Served == {i \in Items1 : item[i] = "working" \/ WithResult(i)}

BatchServed ==
  kind = "batch" =>
    /\ timeUp \/ \A i \in Items1 : ~ItemEnded(i)
    /\ Cardinality(Served) <= Permits

WorkInv ==
  /\ WorkTypeOK /\ RecordsFollow /\ LogCounted /\ FiledLast
  /\ ToldWhole /\ BudgetOfBatch /\ Collecting /\ BatchServed

-----------------------------------------------------------------------------
(* Lists in order *)

\* A sequence in increasing order that gets a greater last element.
LEMMA InOrderAppend ==
  ASSUME NEW T, NEW s \in Seq(T), NEW S \in SUBSET T, InOrder(s, S),
         NEW x \in T, \A y \in S : y < x
  PROVE  InOrder(Append(s, x), S \cup {x})
<1>. DEFINE t == Append(s, x)
            n == Len(s)
<1>1. /\ n \in Nat /\ DOMAIN s = 1..n /\ DOMAIN t = 1..(n + 1)
      /\ t[n + 1] = x /\ \A j \in 1..n : t[j] = s[j]
  OBVIOUS
<1>2. S = {s[j] : j \in 1..n} /\ \A j, k \in 1..n : j < k => s[j] < s[k]
  BY <1>1 DEF InOrder
<1>. HIDE DEF t, n
<1>3. \A j \in 1..(n + 1) : j = n + 1 \/ (j \in 1..n /\ t[j] = s[j] /\ s[j] \in S)
  BY <1>1, <1>2
<1>4. {t[j] : j \in DOMAIN t} = S \cup {x}
  <2>1. \A y \in S \cup {x} : \E j \in 1..(n + 1) : t[j] = y
    <3>1. n + 1 \in 1..(n + 1) /\ 1..n \subseteq 1..(n + 1)
      BY <1>1
    <3>. QED  BY <1>1, <1>2, <3>1
  <2>2. \A j \in 1..(n + 1) : t[j] \in S \cup {x}
    BY <1>1, <1>3
  <2>. QED  BY <1>1, <2>1, <2>2
<1>5. ASSUME NEW j \in 1..(n + 1), NEW k \in 1..(n + 1), j < k  PROVE t[j] < t[k]
  <2>1. j \in 1..n /\ t[j] = s[j] /\ s[j] \in S
    BY <1>1, <1>3, <1>5
  <2>2. CASE k = n + 1
    BY <1>1, <2>1, <2>2
  <2>3. CASE k # n + 1
    BY <1>2, <1>3, <1>5, <2>1, <2>3
  <2>. QED  BY <2>2, <2>3
<1>6. InOrder(t, S \cup {x})
  BY <1>1, <1>4, <1>5 DEF InOrder
<1>. QED  BY <1>6 DEF t

-----------------------------------------------------------------------------
(* The steps *)

\* One of the three accesses is done, whether or not the caller hears of an error.
Recorded == Recordable /\ Access

\* What an access adds to the log.
LEMMA RecordedLog ==
  ASSUME Access
  PROVE  /\ written % 3 = 0 => log' = Append(log, <<"call", Recording>>)
         /\ written % 3 = 1 => log' = Append(log, <<"result", Recording>>)
         /\ written % 3 # 0 /\ written % 3 # 1 => log' = log
<1>1. log' = CASE written % 3 = 0 -> Append(log, <<"call", Recording>>)
               [] written % 3 = 1 -> Append(log, <<"result", Recording>>)
               [] OTHER           -> log
  BY DEF Access
<1>2. ASSUME NEW m, NEW new, NEW a, NEW b, NEW old,
             new = CASE m = 0 -> a [] m = 1 -> b [] OTHER -> old
      PROVE  (m = 0 => new = a) /\ (m = 1 => new = b) /\ (m # 0 /\ m # 1 => new = old)
  BY <1>2
<1>. QED  BY <1>1, <1>2

LEMMA WorkTypesStep ==
  ASSUME WorkTypeOK, [WorkNext]_workVars
  PROVE  WorkTypeOK'
<1>0. NItems \in Nat /\ 0 \in 0..NItems /\ Items1 \subseteq 0..NItems /\ Items1 \subseteq Nat
  BY WorkAssumption DEF Items1
<1>. DEFINE Answers == [at : {"pending", "ok", "error"}, list : Seq(Items1)]
<1>a. /\ [at |-> "error", list |-> <<>>] \in Answers /\ [at |-> "ok", list |-> <<>>] \in Answers
      /\ [at |-> "ok", list |-> [i \in Items1 |-> i]] \in Answers
  <2>1. [i \in Items1 |-> i] \in Seq(Items1)
    BY <1>0 DEF Items1
  <2>2. <<>> \in Seq(Items1)
    OBVIOUS
  <2>. QED  BY <2>1, <2>2
<1>1. CASE UNCHANGED workVars
  BY <1>1 DEF workVars, collector, record, WorkTypeOK
<1>2. ASSUME NEW i \in Items1,
             StartItem(i) \/ \E result \in {"completed", "failed", "dropped"} : EndItem(i, result)
      PROVE  WorkTypeOK'
  BY <1>2 DEF StartItem, EndItem, WorkTypeOK, collector, record
<1>3. CASE TimeIsUp
  BY <1>3 DEF TimeIsUp, WorkTypeOK, collector, record
<1>4. CASE CollectResults
  <2>1. answer' = [at |-> "ok", list |-> collected] /\ collected \in Seq(Items1)
    BY <1>4 DEF CollectResults, AnswerWith, WorkTypeOK
  <2>2. answer' \in Answers
    BY <2>1
  <2>. QED  BY <1>4, <2>2 DEF CollectResults, WorkTypeOK, collector, record
<1>5. CASE CollectNext
  <2>1. /\ awaited \in Items1 /\ awaited' = awaited + 1 /\ awaited' \in 1..NItems + 1
        /\ UNCHANGED <<kind, item, timeUp, written, log, artifact, answer>>
    BY <1>0, <1>5 DEF CollectNext, WorkTypeOK, Items1, record
  <2>2. collected' = collected \/ collected' = Append(collected, awaited)
    BY <1>5 DEF CollectNext
  <2>3. collected' \in Seq(Items1)
    <3>1. collected \in Seq(Items1)
      BY DEF WorkTypeOK
    <3>2. Append(collected, awaited) \in Seq(Items1)
      BY <2>1, <3>1
    <3>. QED  BY <2>2, <3>1, <3>2
  <2>. QED  BY <2>1, <2>3 DEF WorkTypeOK
<1>6. CASE BudgetExceeded
  BY <1>a, <1>6 DEF BudgetExceeded, AnswerWith, WorkTypeOK, collector, record
<1>7. CASE ActionsReturn
  BY <1>a, <1>7 DEF ActionsReturn, AnswerWith, WorkTypeOK, collector, record
<1>8. ASSUME Recorded
      PROVE  /\ written' \in 0..(3 * NItems) /\ log' \in Seq({"call", "result"} \X Items1)
             /\ artifact' \in [{ToolOf[i] : i \in Items1} -> 0..NItems]
  <2>0. /\ written \in 0..(3 * NItems) /\ written < 3 * NItems
        /\ log \in Seq({"call", "result"} \X Items1)
        /\ artifact \in [{ToolOf[i] : i \in Items1} -> 0..NItems]
    BY <1>8 DEF Recorded, Recordable, WorkTypeOK
  <2>1. Recording \in Items1
    BY <1>0, <2>0 DEF Recording, Items1
  <2>2. written' \in 0..(3 * NItems)
    BY <1>0, <1>8, <2>0 DEF Recorded, Access
  <2>3. log' \in Seq({"call", "result"} \X Items1)
    <3>1. <<"call", Recording>> \in {"call", "result"} \X Items1
          /\ <<"result", Recording>> \in {"call", "result"} \X Items1
      BY <2>1
    <3>2. log' \in {log, Append(log, <<"call", Recording>>), Append(log, <<"result", Recording>>)}
      BY <1>8, RecordedLog DEF Recorded
    <3>3. ASSUME NEW S, NEW q \in Seq(S), NEW e \in S  PROVE Append(q, e) \in Seq(S)
      OBVIOUS
    <3>4. /\ Append(log, <<"call", Recording>>) \in Seq({"call", "result"} \X Items1)
          /\ Append(log, <<"result", Recording>>) \in Seq({"call", "result"} \X Items1)
      BY <2>0, <3>1, <3>3, Zenon
    <3>. QED  BY <2>0, <3>2, <3>4, Zenon
  <2>4. artifact' \in [{ToolOf[i] : i \in Items1} -> 0..NItems]
    <3>1. artifact' = artifact \/ artifact' = [artifact EXCEPT ![ToolOf[Recording]] = Recording]
      BY <1>8 DEF Recorded, Access
    <3>. QED  BY <1>0, <2>0, <2>1, <3>1
  <2>. QED  BY <2>2, <2>3, <2>4
<1>9. CASE RecordStep
  <2>1. Recorded /\ UNCHANGED <<kind, item, timeUp, awaited, collected, answer>>
    BY <1>9 DEF RecordStep, Recorded, collector
  <2>. QED  BY <1>8, <2>1 DEF WorkTypeOK
<1>10. CASE StepUnrecorded
  <2>1. /\ Recorded \/ UNCHANGED <<written, log, artifact>>
        /\ UNCHANGED <<kind, item, timeUp, awaited, collected>> /\ answer' \in Answers
    BY <1>a, <1>10 DEF StepUnrecorded, AnswerWith, Recorded, collector, record
  <2>. QED  BY <1>8, <2>1 DEF WorkTypeOK
<1>. QED  BY <1>1, <1>2, <1>3, <1>4, <1>5, <1>6, <1>7, <1>9, <1>10 DEF WorkNext

\* An item that has ended stays as it is.
LEMMA EndedStays ==
  ASSUME WorkTypeOK, [WorkNext]_workVars, NEW i \in Items1, ItemEnded(i)
  PROVE  item'[i] = item[i]
<1>1. item \in [Items1 -> {"waiting", "working", "completed", "failed", "dropped"}]
  BY DEF WorkTypeOK
<1>. QED  BY <1>1
       DEF WorkNext, workVars, StartItem, EndItem, TimeIsUp, CollectNext, CollectResults,
           BudgetExceeded, RecordStep, StepUnrecorded, ActionsReturn, ItemEnded

\* What is on record changes only when an access is done.
LEMMA RecordsStay ==
  ASSUME [WorkNext]_workVars
  PROVE  kind' = kind /\ (~Recorded => UNCHANGED <<written, log, artifact>>)
BY DEF WorkNext, workVars, StartItem, EndItem, TimeIsUp, CollectNext, CollectResults,
       BudgetExceeded, RecordStep, StepUnrecorded, ActionsReturn, Recorded, record

\* The three accesses of a record.
LEMMA RecordForm ==
  ASSUME WorkTypeOK, Recorded
  PROVE  \E q, r \in Nat :
           /\ written = 3 * q + r /\ r \in 0..2 /\ q < NItems /\ written' = written + 1
           /\ written \div 3 = q /\ written % 3 = r /\ Recording = q + 1 /\ q + 1 \in Items1
           /\ written' \div 3 = (IF r = 2 THEN q + 1 ELSE q) /\ written' % 3 = (IF r = 2 THEN 0 ELSE r + 1)
<1>0. NItems \in Nat /\ written \in Nat /\ written < 3 * NItems /\ written' = written + 1
  BY WorkAssumption DEF Recorded, Recordable, Access, WorkTypeOK
<1>. DEFINE q == written \div 3
            r == written % 3
<1>1. q \in Nat /\ r \in 0..2 /\ written = 3 * q + r
  BY <1>0
<1>2. Recording = q + 1
  BY DEF Recording
<1>. HIDE DEF q, r
<1>3. q < NItems /\ q + 1 \in Items1
  BY <1>0, <1>1 DEF Items1
<1>4. written' \div 3 = (IF r = 2 THEN q + 1 ELSE q) /\ written' % 3 = (IF r = 2 THEN 0 ELSE r + 1)
  BY <1>0, <1>1
<1>5. written \div 3 = q /\ written % 3 = r
  BY <1>0, <1>1
<1>. QED  BY <1>0, <1>1, <1>2, <1>3, <1>4, <1>5

LEMMA RecordsFollowStep ==
  ASSUME WorkTypeOK, RecordsFollow, [WorkNext]_workVars
  PROVE  RecordsFollow'
<1>. SUFFICES ASSUME NEW i \in Items1, 3 * i - 2 <= written'  PROVE item'[i] \in {"completed", "failed", "dropped"}
  BY DEF RecordsFollow, ItemEnded
<1>0. i \in Nat
  BY WorkAssumption DEF Items1
<1>1. CASE ~Recorded
  <2>1. ItemEnded(i)
    BY <1>1, RecordsStay DEF RecordsFollow
  <2>. QED  BY <2>1, EndedStays DEF ItemEnded
<1>2. CASE Recorded
  <2>1. PICK q, r \in Nat : /\ written = 3 * q + r /\ r \in 0..2 /\ written' = written + 1 /\ Recording = q + 1
    BY <1>2, RecordForm
  <2>2. ItemEnded(i)
    <3>1. CASE 3 * i - 2 <= written
      BY <3>1 DEF RecordsFollow
    <3>2. CASE ~(3 * i - 2 <= written)
      <4>1. i = q + 1
        BY <1>0, <2>1, <3>2
      <4>2. AllEnded \/ ItemEnded(q + 1)
        BY <1>2, <2>1 DEF Recorded, Recordable
      <4>. QED  BY <4>1, <4>2 DEF AllEnded
    <3>. QED  BY <3>1, <3>2
  <2>. QED  BY <2>2, EndedStays DEF ItemEnded
<1>. QED  BY <1>1, <1>2

LEMMA LogCountedStep ==
  ASSUME WorkTypeOK, LogCounted, [WorkNext]_workVars
  PROVE  LogCounted'
<1>1. CASE ~Recorded
  BY <1>1, RecordsStay DEF LogCounted
<1>2. CASE Recorded
  <2>0. log \in Seq({"call", "result"} \X Items1)
    BY DEF WorkTypeOK
  <2>1. PICK q, r \in Nat :
           /\ written = 3 * q + r /\ r \in 0..2 /\ q < NItems /\ written' = written + 1
           /\ written \div 3 = q /\ written % 3 = r /\ Recording = q + 1 /\ q + 1 \in Items1
           /\ written' \div 3 = (IF r = 2 THEN q + 1 ELSE q) /\ written' % 3 = (IF r = 2 THEN 0 ELSE r + 1)
    BY <1>2, RecordForm
  <2>2. Len(log) = 2 * q + r
    BY <2>1 DEF LogCounted
  <2>. DEFINE Name(j) == <<IF j % 2 = 1 THEN "call" ELSE "result", (j + 1) \div 2>>
  <2>3. \A j \in 1..Len(log) : log[j] = Name(j)
    BY DEF LogCounted
  <2>4. CASE r = 2
    <3>1. log' = log
      BY <1>2, <2>1, <2>4, RecordedLog DEF Recorded
    <3>2. Len(log') = 2 * (written' \div 3) + (written' % 3)
      BY <2>1, <2>2, <2>4, <3>1
    <3>. QED  BY <2>3, <3>1, <3>2 DEF LogCounted
  <2>5. CASE r # 2
    <3>. DEFINE e == <<IF r = 0 THEN "call" ELSE "result", q + 1>>
    <3>1. log' = Append(log, e)
      <4>1. r = 0 \/ r = 1
        BY <2>1, <2>5
      <4>. QED  BY <1>2, <2>1, <4>1, RecordedLog DEF Recorded
    <3>2. e = Name(Len(log) + 1)
      <4>1. CASE r = 0
        <5>1. (2 * q + 1) % 2 = 1 /\ (2 * q + 1 + 1) \div 2 = q + 1
          BY <2>1
        <5>. QED  BY <2>1, <2>2, <4>1, <5>1
      <4>2. CASE r = 1
        <5>1. (2 * q + 1 + 1) % 2 = 0 /\ (2 * q + 1 + 1 + 1) \div 2 = q + 1
          BY <2>1
        <5>. QED  BY <2>1, <2>2, <4>2, <5>1
      <4>. QED  BY <2>1, <2>5, <4>1, <4>2
    <3>. HIDE DEF e, Name
    <3>3. e \in {"call", "result"} \X Items1
      BY <2>1 DEF e
    <3>4. /\ Len(log') = Len(log) + 1 /\ log'[Len(log) + 1] = e
          /\ \A j \in 1..Len(log) : log'[j] = log[j]
      BY <2>0, <3>1, <3>3
    <3>5. Len(log) \in Nat
      BY <2>0
    <3>6. \A j \in 1..Len(log') : log'[j] = Name(j)
      BY <2>3, <3>2, <3>4, <3>5
    <3>7. Len(log') = 2 * (written' \div 3) + (written' % 3)
      BY <2>1, <2>2, <2>5, <3>4
    <3>. QED  BY <3>6, <3>7 DEF LogCounted, Name
  <2>. QED  BY <2>4, <2>5
<1>. QED  BY <1>1, <1>2

LEMMA FiledLastStep ==
  ASSUME WorkTypeOK, FiledLast, [WorkNext]_workVars
  PROVE  FiledLast'
<1>0. artifact \in [{ToolOf[i] : i \in Items1} -> 0..NItems] /\ written \in Nat /\ Items1 \subseteq Nat
  BY WorkAssumption DEF WorkTypeOK, Items1
<1>1. CASE ~Recorded
  BY <1>1, RecordsStay DEF FiledLast
<1>2. CASE Recorded
  <2>1. PICK q, r \in Nat :
           /\ written = 3 * q + r /\ r \in 0..2 /\ written' = written + 1
           /\ written % 3 = r /\ Recording = q + 1 /\ q + 1 \in Items1
    BY <1>2, RecordForm
  <2>2. CASE r # 2
    <3>1. artifact' = artifact
      BY <1>2, <2>1, <2>2 DEF Recorded, Access
    <3>2. ASSUME NEW i \in Items1  PROVE 3 * i <= written' <=> 3 * i <= written
      <4>1. i \in Nat /\ (r = 0 \/ r = 1)
        BY <1>0, <2>1, <2>2
      <4>2. 3 * i <= 3 * q + 2 <=> 3 * i <= 3 * q + 0
        BY <4>1
      <4>. QED  BY <2>1, <4>1, <4>2
    <3>. QED  BY <3>1, <3>2 DEF FiledLast
  <2>3. CASE r = 2
    <3>1. artifact' = [artifact EXCEPT ![ToolOf[q + 1]] = q + 1]
      BY <1>2, <2>1, <2>3 DEF Recorded, Access
    <3>2. \A i \in Items1 : 3 * i <= written' <=> (3 * i <= written \/ i = q + 1)
      BY <1>0, <2>1, <2>3
    <3>3. \A i \in Items1 : 3 * i <= written' => i <= q + 1
      BY <1>0, <2>1, <2>3
    <3>4. ASSUME NEW x \in DOMAIN artifact'
          PROVE  /\ \/ artifact'[x] = 0
                    \/ artifact'[x] \in Items1 /\ ToolOf[artifact'[x]] = x /\ 3 * artifact'[x] <= written'
                 /\ \A i \in Items1 : ToolOf[i] = x /\ 3 * i <= written' => i <= artifact'[x]
      <4>1. x \in DOMAIN artifact
        BY <1>0, <3>1
      <4>2. CASE x = ToolOf[q + 1]
        <5>1. artifact'[x] = q + 1
          BY <1>0, <3>1, <4>1, <4>2
        <5>. QED  BY <2>1, <3>2, <3>3, <4>2, <5>1
      <4>3. CASE x # ToolOf[q + 1]
        <5>1. artifact'[x] = artifact[x]
          BY <1>0, <3>1, <4>1, <4>3
        <5>. QED  BY <3>2, <4>1, <4>3, <5>1 DEF FiledLast
      <4>. QED  BY <4>2, <4>3
    <3>. QED  BY <3>4 DEF FiledLast
  <2>. QED  BY <2>2, <2>3
<1>. QED  BY <1>1, <1>2

LEMMA BudgetOfBatchStep ==
  ASSUME WorkTypeOK, BudgetOfBatch, [WorkNext]_workVars
  PROVE  BudgetOfBatch'
<1>0. item \in [Items1 -> {"waiting", "working", "completed", "failed", "dropped"}]
  BY DEF WorkTypeOK
<1>1. ASSUME NEW i \in Items1, StartItem(i)  PROVE BudgetOfBatch'
  BY <1>0, <1>1 DEF StartItem, BudgetOfBatch, Actions
<1>2. ASSUME NEW i \in Items1, NEW result \in {"completed", "failed", "dropped"}, EndItem(i, result)
      PROVE  BudgetOfBatch'
  BY <1>0, <1>2 DEF EndItem, BudgetOfBatch, Actions
<1>3. CASE TimeIsUp
  BY <1>3 DEF TimeIsUp, BudgetOfBatch, Actions
<1>4. CASE UNCHANGED <<kind, item, timeUp>>
  BY <1>4 DEF BudgetOfBatch, Actions
<1>. QED  BY <1>1, <1>2, <1>3, <1>4
       DEF WorkNext, workVars, CollectNext, CollectResults, BudgetExceeded, RecordStep,
           StepUnrecorded, ActionsReturn

LEMMA CollectingStep ==
  ASSUME WorkTypeOK, Collecting, [WorkNext]_workVars
  PROVE  Collecting'
<1>0. /\ NItems \in Nat /\ Items1 \subseteq Nat /\ awaited \in 1..NItems + 1
      /\ collected \in Seq(Items1)
  BY WorkAssumption DEF WorkTypeOK, Items1
<1>1. \A i \in Items1 : ItemEnded(i) => item'[i] = item[i] /\ ItemEnded(i)'
  BY EndedStays DEF ItemEnded
<1>2. CASE CollectNext
  <2>1. /\ awaited \in Items1 /\ ItemEnded(awaited) /\ awaited' = awaited + 1
        /\ item' = item /\ answer.at = "pending" /\ answer' = answer
    BY <1>0, <1>2 DEF CollectNext, Items1
  <2>2. \A i \in Items1 : i < awaited' <=> (i < awaited \/ i = awaited)
    BY <1>0, <2>1
  <2>3. InOrder(collected, CollectedSoFar)
    BY <2>1 DEF Collecting
  <2>4. \A i \in Items1 : WithResult(i)' <=> WithResult(i)
    BY <2>1 DEF WithResult
  <2>5. InOrder(collected', CollectedSoFar')
    <3>1. CASE WithResult(awaited)
      <4>1. CollectedSoFar' = CollectedSoFar \cup {awaited}
        BY <2>1, <2>2, <2>4, <3>1 DEF CollectedSoFar
      <4>2. collected' = Append(collected, awaited)
        BY <1>2, <3>1 DEF CollectNext
      <4>3. collected \in Seq(Items1) /\ CollectedSoFar \in SUBSET Items1 /\ awaited \in Items1
        BY <1>0, <2>1 DEF CollectedSoFar
      <4>4. \A y \in CollectedSoFar : y < awaited
        BY DEF CollectedSoFar
      <4>5. InOrder(Append(collected, awaited), CollectedSoFar \cup {awaited})
        BY <2>3, <4>3, <4>4, InOrderAppend
      <4>. QED  BY <4>1, <4>2, <4>5
    <3>2. CASE ~WithResult(awaited)
      <4>1. CollectedSoFar' = CollectedSoFar
        BY <2>1, <2>2, <2>4, <3>2 DEF CollectedSoFar
      <4>2. collected' = collected
        BY <1>2, <3>2 DEF CollectNext
      <4>. QED  BY <2>3, <4>1, <4>2
    <3>. QED  BY <3>1, <3>2
  <2>6. \A i \in Items1 : i < awaited' => ItemEnded(i)'
    BY <1>1, <2>1, <2>2 DEF Collecting
  <2>. QED  BY <2>5, <2>6 DEF Collecting
<1>3. CASE ~CollectNext
  <2>1. awaited' = awaited /\ (answer'.at = "pending" => answer.at = "pending" /\ collected' = collected)
    BY <1>3 DEF WorkNext, workVars, StartItem, EndItem, TimeIsUp, CollectResults, BudgetExceeded,
         RecordStep, StepUnrecorded, ActionsReturn, AnswerWith, collector
  <2>2. \A i \in Items1 : i < awaited => ItemEnded(i) /\ (WithResult(i)' <=> WithResult(i))
    BY <1>1 DEF Collecting, WithResult
  <2>3. CollectedSoFar' = CollectedSoFar
    BY <2>1, <2>2 DEF CollectedSoFar
  <2>4. \A i \in Items1 : i < awaited' => ItemEnded(i)'
    BY <1>1, <2>1, <2>2
  <2>. QED  BY <2>1, <2>3, <2>4 DEF Collecting
<1>. QED  BY <1>2, <1>3

LEMMA BatchServedStep ==
  ASSUME WorkTypeOK, BatchServed, [WorkNext]_workVars
  PROVE  BatchServed'
<1>0. /\ item \in [Items1 -> {"waiting", "working", "completed", "failed", "dropped"}]
      /\ NItems \in Nat /\ Permits \in Nat
  BY WorkAssumption DEF WorkTypeOK
<1>1. IsFiniteSet(Items1)
  BY <1>0, FS_Interval DEF Items1
<1>2. kind' = kind
  BY RecordsStay
<1>3. ASSUME NEW i \in Items1, StartItem(i), kind = "batch"  PROVE BatchServed'
  <2>1. /\ item[i] = "waiting" /\ Cardinality(Working) < Permits /\ timeUp' = timeUp
        /\ item' = [item EXCEPT ![i] = IF timeUp THEN "dropped" ELSE "working"]
    BY <1>3 DEF StartItem, MayStart
  <2>2. CASE timeUp
    <3>1. Served' = Served
      BY <1>0, <2>1, <2>2 DEF Served, WithResult
    <3>. QED  BY <1>3, <2>1, <2>2, <3>1 DEF BatchServed
  <2>3. CASE ~timeUp
    <3>1. \A k \in Items1 : ~ItemEnded(k)
      BY <1>3, <2>3 DEF BatchServed
    <3>2. Served' = Working \cup {i} /\ i \notin Working
      BY <1>0, <2>1, <2>3, <3>1 DEF Served, Working, ItemEnded, WithResult
    <3>3. IsFiniteSet(Working)
      <4>1. Working \subseteq Items1
        BY DEF Working
      <4>. QED  BY <1>1, <4>1, FS_Subset
    <3>4. Cardinality(Working \cup {i}) = Cardinality(Working) + 1 /\ Cardinality(Working) \in Nat
      BY <3>2, <3>3, FS_AddElement, FS_CardinalityType
    <3>5. Cardinality(Served') <= Permits
      BY <1>0, <2>1, <3>2, <3>4
    <3>6. \A k \in Items1 : ~ItemEnded(k)'
      BY <1>0, <2>1, <2>3, <3>1 DEF ItemEnded
    <3>. QED  BY <3>5, <3>6 DEF BatchServed
  <2>. QED  BY <2>2, <2>3
<1>4. ASSUME NEW i \in Items1, NEW result \in {"completed", "failed", "dropped"}, EndItem(i, result),
             kind = "batch"
      PROVE  BatchServed'
  <2>1. /\ item[i] = "working" /\ timeUp /\ timeUp' = timeUp
        /\ item' = [item EXCEPT ![i] = "completed"]
    BY <1>4 DEF EndItem
  <2>2. Served' = Served
    BY <1>0, <2>1 DEF Served, WithResult
  <2>. QED  BY <1>4, <2>1, <2>2 DEF BatchServed
<1>5. CASE TimeIsUp
  <2>1. timeUp' = TRUE /\ item' = item
    BY <1>5 DEF TimeIsUp
  <2>2. Served' = Served
    BY <2>1 DEF Served, WithResult
  <2>. QED  BY <1>2, <2>1, <2>2 DEF BatchServed
<1>6. CASE UNCHANGED <<item, timeUp>>
  <2>1. Served' = Served /\ \A k \in Items1 : ItemEnded(k)' <=> ItemEnded(k)
    BY <1>6 DEF Served, ItemEnded, WithResult
  <2>. QED  BY <1>2, <1>6, <2>1 DEF BatchServed
<1>7. CASE kind # "batch"
  BY <1>2, <1>7 DEF BatchServed
<1>. QED  BY <1>3, <1>4, <1>5, <1>6, <1>7
       DEF WorkNext, workVars, CollectNext, CollectResults, BudgetExceeded, RecordStep,
           StepUnrecorded, ActionsReturn

LEMMA ToldWholeStep ==
  ASSUME WorkTypeOK, RecordsFollow, BudgetOfBatch, Collecting, ToldWhole, [WorkNext]_workVars
  PROVE  ToldWhole'
<1>0. /\ NItems \in Nat /\ Items1 \subseteq Nat /\ written \in 0..(3 * NItems)
      /\ item \in [Items1 -> {"waiting", "working", "completed", "failed", "dropped"}]
  BY WorkAssumption DEF WorkTypeOK, Items1
<1>1. CASE CollectResults
  <2>1. /\ answer' = [at |-> "ok", list |-> collected] /\ ~Actions /\ awaited > NItems
        /\ answer.at = "pending" /\ UNCHANGED <<kind, item, written>>
    BY <1>1 DEF CollectResults, AnswerWith, record
  <2>2. \A i \in Items1 : i < awaited
    BY <1>0, <2>1 DEF WorkTypeOK, Items1
  <2>3. CollectedSoFar = {i \in Items1 : WithResult(i)}
    BY <2>2 DEF CollectedSoFar
  <2>4. InOrder(answer'.list, {i \in Items1 : WithResult(i)'})
    BY <2>1, <2>3 DEF Collecting, WithResult
  <2>5. AllEnded' /\ ~Actions' /\ answer'.at = "ok" /\ written' = written
    BY <2>1, <2>2 DEF Collecting, AllEnded, ItemEnded, Actions
  <2>. QED  BY <2>1, <2>4, <2>5 DEF ToldWhole
<1>2. CASE BudgetExceeded
  <2>1. answer' = [at |-> "ok", list |-> <<>>] /\ ~Actions /\ UNCHANGED <<kind, written>>
    BY <1>2 DEF BudgetExceeded, AnswerWith, BudgetOfBatch, Actions, record
  <2>. QED  BY <2>1 DEF ToldWhole, Actions
<1>3. CASE StepUnrecorded
  <2>1. answer' = [at |-> "error", list |-> <<>>] /\ kind' = kind /\ Actions
    BY <1>3 DEF StepUnrecorded, Recordable, AnswerWith
  <2>. QED  BY <2>1 DEF ToldWhole, Actions
<1>4. CASE ActionsReturn
  <2>1. /\ answer' = [at |-> "ok", list |-> [i \in Items1 |-> i]] /\ Actions /\ written = 3 * NItems
        /\ UNCHANGED <<kind, item, written>>
    BY <1>4 DEF ActionsReturn, AnswerWith, record
  <2>2. \A i \in Items1 : ItemEnded(i)
    BY <1>0, <2>1 DEF RecordsFollow, Items1
  <2>3. \A i \in Items1 : WithResult(i)
    BY <2>1, <2>2 DEF BudgetOfBatch, ItemEnded, WithResult
  <2>4. InOrder([i \in Items1 |-> i], {i \in Items1 : WithResult(i)})
    BY <2>3 DEF InOrder
  <2>5. InOrder(answer'.list, {i \in Items1 : WithResult(i)'}) /\ AllEnded' /\ Actions'
    BY <2>1, <2>2, <2>4 DEF WithResult, AllEnded, ItemEnded, Actions
  <2>. QED  BY <2>1, <2>5 DEF ToldWhole
<1>5. CASE answer' = answer /\ kind' = kind
  <2>1. answer.list # <<>> => AllEnded' /\ InOrder(answer'.list, {i \in Items1 : WithResult(i)'})
    <3>. SUFFICES ASSUME answer.list # <<>>
                  PROVE  AllEnded' /\ InOrder(answer'.list, {i \in Items1 : WithResult(i)'})
      OBVIOUS
    <3>1. AllEnded /\ InOrder(answer.list, {i \in Items1 : WithResult(i)})
      BY DEF ToldWhole
    <3>2. \A i \in Items1 : item'[i] = item[i]
      BY <3>1, EndedStays DEF AllEnded
    <3>. QED  BY <1>5, <3>1, <3>2 DEF AllEnded, ItemEnded, WithResult
  <2>2. CASE Recorded
    <3>1. Actions /\ answer.at = "pending"
      BY <2>2 DEF Recorded, Recordable
    <3>. QED  BY <1>5, <2>1, <3>1 DEF ToldWhole, Actions
  <2>3. CASE ~Recorded
    BY <1>5, <2>1, <2>3, RecordsStay DEF ToldWhole, Actions
  <2>. QED  BY <2>2, <2>3
<1>6. \/ CollectResults \/ BudgetExceeded \/ StepUnrecorded \/ ActionsReturn
      \/ answer' = answer /\ kind' = kind
  BY DEF WorkNext, workVars, StartItem, EndItem, TimeIsUp, CollectNext, RecordStep
<1>. QED  BY <1>1, <1>2, <1>3, <1>4, <1>5, <1>6

-----------------------------------------------------------------------------
(* What holds of the work *)

LEMMA WorkInitOK == WorkInit => WorkInv
<1>. SUFFICES ASSUME WorkInit  PROVE WorkInv
  OBVIOUS
<1>1. /\ kind \in {"batch", "sessions", "parallel", "sequential"}
      /\ item = [i \in Items1 |-> "waiting"] /\ timeUp = FALSE
      /\ awaited = 1 /\ collected = <<>> /\ written = 0 /\ log = <<>>
      /\ artifact = [x \in {ToolOf[i] : i \in Items1} |-> 0]
      /\ answer = [at |-> "pending", list |-> <<>>]
  BY DEF WorkInit
<1>2. NItems \in Nat /\ Items1 \subseteq Nat \ {0}
  BY WorkAssumption DEF Items1
<1>3. WorkTypeOK
  <2>1. answer \in [at : {"pending", "ok", "error"}, list : Seq(Items1)]
    BY <1>1
  <2>2. written \in 0..(3 * NItems) /\ 0 \in 0..NItems
    BY <1>1, <1>2
  <2>3. artifact \in [{ToolOf[i] : i \in Items1} -> 0..NItems]
    BY <1>1, <2>2
  <2>4. log \in Seq({"call", "result"} \X Items1)
    BY <1>1
  <2>5. awaited \in 1..NItems + 1 /\ collected \in Seq(Items1)
    BY <1>1, <1>2
  <2>. QED  BY <1>1, <2>1, <2>2, <2>3, <2>4, <2>5 DEF WorkTypeOK
<1>4. RecordsFollow
  BY <1>1, <1>2 DEF RecordsFollow
<1>5. LogCounted
  BY <1>1 DEF LogCounted
<1>6. FiledLast
  BY <1>1, <1>2 DEF FiledLast
<1>7. ToldWhole /\ BudgetOfBatch
  BY <1>1 DEF ToldWhole, BudgetOfBatch, Actions
<1>8. Collecting
  <2>1. \A i \in Items1 : ~(i < awaited)
    BY <1>1, <1>2
  <2>2. CollectedSoFar = {}
    BY <2>1 DEF CollectedSoFar
  <2>. QED  BY <1>1, <2>1, <2>2 DEF Collecting, InOrder
<1>9. BatchServed
  <2>1. Served = {} /\ \A i \in Items1 : ~ItemEnded(i)
    BY <1>1 DEF Served, ItemEnded, WithResult
  <2>2. Cardinality(Served) = 0 /\ Permits \in Nat
    BY <2>1, WorkAssumption, FS_EmptySet
  <2>. QED  BY <2>1, <2>2 DEF BatchServed
<1>. QED  BY <1>3, <1>4, <1>5, <1>6, <1>7, <1>8, <1>9 DEF WorkInv

LEMMA WorkStepOK == WorkInv /\ [WorkNext]_workVars => WorkInv'
<1>. SUFFICES ASSUME WorkInv, [WorkNext]_workVars  PROVE WorkInv'
  OBVIOUS
<1>1. /\ WorkTypeOK /\ RecordsFollow /\ LogCounted /\ FiledLast
      /\ ToldWhole /\ BudgetOfBatch /\ Collecting /\ BatchServed
  BY DEF WorkInv
<1>2. WorkTypeOK' /\ RecordsFollow' /\ LogCounted' /\ FiledLast'
  BY <1>1, WorkTypesStep, RecordsFollowStep, LogCountedStep, FiledLastStep
<1>3. ToldWhole' /\ BudgetOfBatch' /\ Collecting' /\ BatchServed'
  BY <1>1, ToldWholeStep, BudgetOfBatchStep, CollectingStep, BatchServedStep
<1>. QED  BY <1>2, <1>3 DEF WorkInv

\* Every state of the work, of its records and of its answer has its type.
THEOREM WorkTypeCorrect == WorkSpec => []WorkTypeOK
<1>1. WorkInv => WorkTypeOK
  BY DEF WorkInv
<1>. QED  BY <1>1, WorkInitOK, WorkStepOK, PTL DEF WorkSpec

\* No batch has more results than permits, for any number of tasks and permits and
\* for any moment at which its time is up.
THEOREM BatchesFit == WorkSpec => []BatchFitsPermits
<1>1. WorkInv => BatchFitsPermits
  <2>. SUFFICES ASSUME WorkInv, kind = "batch"
                PROVE  Cardinality({i \in Items1 : WithResult(i)}) <= Permits
    BY DEF BatchFitsPermits
  <2>. DEFINE done == {i \in Items1 : WithResult(i)}
  <2>1. Cardinality(Served) <= Permits /\ Permits \in Nat
    BY WorkAssumption DEF WorkInv, BatchServed
  <2>2. IsFiniteSet(Items1) /\ Served \subseteq Items1 /\ done \subseteq Served
    BY WorkAssumption, FS_Interval DEF Items1, Served, WithResult
  <2>. HIDE DEF done
  <2>3. IsFiniteSet(Served)
    BY <2>2, FS_Subset
  <2>4. /\ Cardinality(done) <= Cardinality(Served)
        /\ Cardinality(done) \in Nat /\ Cardinality(Served) \in Nat
    BY <2>2, <2>3, FS_Subset, FS_CardinalityType
  <2>5. Cardinality(done) <= Permits
    BY <2>1, <2>4
  <2>. QED  BY <2>5 DEF done
<1>. QED  BY <1>1, WorkInitOK, WorkStepOK, PTL DEF WorkSpec

\* What the caller of a batch, of several sessions or of several tool calls is told
\* names every item with a result, in the order asked for, after all of them have
\* ended, or nothing: for any number of items that end in any order while the
\* results are collected one handle after the other; and a batch has no more
\* results than permits.
THEOREM AnswersWhole == WorkSpec => []AnswerIsWhole
<1>1. WorkInv /\ BatchFitsPermits => AnswerIsWhole
  BY DEF WorkInv, ToldWhole, AnswerIsWhole
<1>. QED  BY <1>1, BatchesFit, WorkInitOK, WorkStepOK, PTL DEF WorkSpec

\* The log has each action's call and then its result in the order asked for, none
\* before the action has ended; what is filed under a tool is its last recorded
\* result; and an answer without an error means that all of it is there: for any
\* number of actions that end in any order, wherever a record fails.
THEOREM LogsFollowCalls == WorkSpec => []LogFollowsCalls
<1>1. WorkInv => LogFollowsCalls
  <2>. SUFFICES ASSUME WorkInv  PROVE LogFollowsCalls
    OBVIOUS
  <2>0. /\ NItems \in Nat /\ Items1 \subseteq Nat \ {0} /\ written \in Nat /\ Len(log) \in Nat
        /\ log \in Seq({"call", "result"} \X Items1)
        /\ RecordsFollow /\ LogCounted /\ FiledLast /\ ToldWhole
    BY WorkAssumption DEF WorkInv, WorkTypeOK, Items1
  <2>1. \A j \in 1..Len(log) : log[j] = <<IF j % 2 = 1 THEN "call" ELSE "result", (j + 1) \div 2>>
    BY <2>0 DEF LogCounted
  <2>2. ASSUME NEW j \in 1..Len(log)  PROVE ItemEnded(log[j][2])
    <3>1. log[j] \in {"call", "result"} \X Items1
      BY <2>0
    <3>2. log[j][2] = (j + 1) \div 2 /\ log[j][2] \in Items1
      BY <2>1, <3>1
    <3>3. Len(log) = 2 * (written \div 3) + (written % 3)
      BY <2>0 DEF LogCounted
    <3>4. 3 * ((j + 1) \div 2) - 2 <= written
      BY <2>0, <3>3
    <3>. QED  BY <2>0, <3>2, <3>4 DEF RecordsFollow
  <2>3. ASSUME NEW x \in DOMAIN artifact
        PROVE  LET filed == {i \in Items1 : ToolOf[i] = x /\ 3 * i <= written}
               IN artifact[x] \in filed \cup {0} /\ \A i \in filed : i <= artifact[x]
    BY <2>0 DEF FiledLast
  <2>4. Actions /\ answer.at = "ok" => Len(log) = 2 * NItems
    <3>1. (3 * NItems) \div 3 = NItems /\ (3 * NItems) % 3 = 0
      BY <2>0
    <3>. QED  BY <2>0, <3>1 DEF ToldWhole, LogCounted
  <2>. QED  BY <2>1, <2>2, <2>3, <2>4 DEF LogFollowsCalls
<1>. QED  BY <1>1, WorkInitOK, WorkStepOK, PTL DEF WorkSpec

=============================================================================
