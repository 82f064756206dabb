------------------------------ MODULE Composer ------------------------------
(***************************************************************************)
(* The context of a model call: the block store and BlockComposerEngine    *)
(* (block_composer/mod.rs), the skill that lists, composes and generates   *)
(* (skills/composer_skill.rs), BlockComposer.Compose of the server         *)
(* (server/composer_server.rs), and the choice of a provider and a model   *)
(* (llm/config.rs, llm/router.rs).                                         *)
(*                                                                         *)
(* Every writer of the store holds the locks of both tables, taken in the  *)
(* same order, and no reader holds one across an await: a block and its    *)
(* metadata are one entry, and one access of the store is one step.        *)
(***************************************************************************)
EXTENDS Integers, FiniteSets, Sequences, SequencesExt

CONSTANTS
  Blocks,        \* ids that clients give to blocks
  Contents,      \* what a block may be: [type, priority, tokens]
  ServedTypes,   \* block types asked of the server; its blocks have them as ids
  Configs,       \* providers and models the router may be configured with
  Compositions   \* calls that compose or submit a request, each by any client

ASSUME ComposerAssumption ==
  /\ IsFiniteSet(Blocks) /\ IsFiniteSet(ServedTypes) /\ ServedTypes \subseteq Nat
  /\ Contents \subseteq [type : Nat, priority : Nat, tokens : Nat]
  /\ \A cfg \in Configs :
       /\ "none" \notin DOMAIN cfg
       /\ \A p \in DOMAIN cfg : DOMAIN cfg[p].models \subseteq 0..4

VARIABLES
  store,       \* the blocks with their metadata
  providers,   \* LLMRouterConfig.providers, never changed
  composing,   \* where each composition is, what it was given and what it made
  pending      \* LLMRouter.pending_requests

composerVars == <<store, providers, composing, pending>>

Profiles == {"prime", "session", "task"}
TokenBudget == [prime |-> 2000, session |-> 3000, task |-> 4000]
TypeOrder == [prime |-> <<1, 3, 2>>, session |-> <<4, 5, 6>>, task |-> <<7, 8, 9, 10>>]
Truncatable == 100   \* a block is cut only where more tokens than this are left

NoBlock == [type |-> 0, priority |-> 0, tokens |-> 0]
Ids == Blocks \union ServedTypes
Stored == {b \in Ids : store[b] # NoBlock}

NoComposition == [at |-> "new", profile |-> "task", given |-> <<>>, rest |-> <<>>,
                  made |-> <<>>, generates |-> FALSE, difficulty |-> 0,
                  chosen |-> <<>>]

ComposerInit ==
  /\ store = [b \in Ids |-> NoBlock]
  /\ providers \in Configs
  /\ composing = [c \in Compositions |-> NoComposition]
  /\ pending = {}

Composing(c, from, change) ==
  /\ composing[c].at = from
  /\ composing' = [composing EXCEPT ![c] = change]
  /\ UNCHANGED providers

(***************************************************************************)
(* The store.  A block put under an id that is used replaces the other.    *)
(***************************************************************************)
UpsertBlock(b, content) ==
  /\ store' = [store EXCEPT ![b] = content]
  /\ UNCHANGED <<providers, composing, pending>>

RemoveBlock(b) ==
  /\ store' = [store EXCEPT ![b] = NoBlock]
  /\ UNCHANGED <<providers, composing, pending>>

ClearAllBlocks ==
  /\ store' = [b \in Ids |-> NoBlock]
  /\ UNCHANGED <<providers, composing, pending>>

(***************************************************************************)
(* Composition.  The skill gives the engine the blocks it has listed, in   *)
(* the order of a hash map; the engine stores each of them again, so that  *)
(* a block removed meanwhile is back.                                      *)
(***************************************************************************)
Entry(b, content) == [id |-> b, content |-> content, whole |-> TRUE]

ListBlocks(c, profile) ==
  \E ids \in SetToSeqs(Stored) :
    LET given == [i \in DOMAIN ids |-> Entry(ids[i], store[ids[i]])] IN
    /\ Composing(c, "new", [composing[c] EXCEPT !.at = "storing", !.profile = profile,
                                                !.given = given, !.rest = given,
                                                !.generates = TRUE])
    /\ UNCHANGED <<store, pending>>

\* The server makes a block of 100 tokens for each type it is asked for.
ServedBlock(type) == [type |-> type, priority |-> 5, tokens |-> 100]

ServeCompose(c, profile, types) ==
  LET given == [i \in DOMAIN types |-> Entry(types[i], ServedBlock(types[i]))] IN
  /\ Composing(c, "new", [composing[c] EXCEPT !.at = "storing", !.profile = profile,
                                              !.given = given, !.rest = given])
  /\ UNCHANGED <<store, pending>>

StoreGiven(c) ==
  /\ composing[c].rest # <<>>
  /\ LET first == Head(composing[c].rest) IN
       store' = [store EXCEPT ![first.id] = first.content]
  /\ Composing(c, "storing", [composing[c] EXCEPT !.rest = Tail(@)])
  /\ UNCHANGED pending

\* The place of a block's type in the profile; types it does not name come last.
PlaceOf(profile, type) ==
  IF Contains(TypeOrder[profile], type)
  THEN CHOOSE i \in DOMAIN TypeOrder[profile] : TypeOrder[profile][i] = type
  ELSE Len(TypeOrder[profile]) + 1

Before(profile, x, y) ==
  LET px == PlaceOf(profile, x.content.type)
      py == PlaceOf(profile, y.content.type) IN
  px < py \/ (px = py /\ x.content.priority > y.content.priority)

\* sort_by is stable: each entry comes after those before it, and after those
\* that are given earlier and not before or after it.
Earlier(profile, given, i) ==
  {j \in DOMAIN given : \/ Before(profile, given[j], given[i])
                        \/ j < i /\ ~Before(profile, given[i], given[j])}

Sorted(profile, given) ==
  [k \in DOMAIN given |->
     given[CHOOSE i \in DOMAIN given : Cardinality(Earlier(profile, given, i)) = k - 1]]

\* Mutant: the budget is not used up by what is taken.
AddBlockUncounted(acc, entry) ==
  IF acc.open /\ entry.content.tokens <= acc.left
  THEN [acc EXCEPT !.taken = Append(@, entry)]
  ELSE [acc EXCEPT !.open = FALSE]

AddBlock(acc, entry) ==
  CASE ~acc.open -> acc
    [] acc.open /\ entry.content.tokens <= acc.left ->
         [acc EXCEPT !.taken = Append(@, entry), !.left = @ - entry.content.tokens]
    [] acc.open /\ entry.content.tokens > acc.left /\ acc.left > Truncatable ->
         [acc EXCEPT !.open = FALSE,
                     !.taken = Append(@, [entry EXCEPT !.whole = FALSE,
                                                       !.content.tokens = acc.left])]
    [] OTHER -> [acc EXCEPT !.open = FALSE]

NoneTaken(profile) == [taken |-> <<>>, left |-> TokenBudget[profile], open |-> TRUE]

ComposeBlocks(profile, given) ==
  LET sorted == Sorted(profile, given)
      after[k \in 0..Len(given)] ==
        IF k = 0 THEN NoneTaken(profile) ELSE AddBlock(after[k - 1], sorted[k])
  IN after[Len(given)].taken

\* The cut counts bytes: inside a character the call panics and nothing is made.
Compose(c) ==
  LET made == ComposeBlocks(composing[c].profile, composing[c].given) IN
  /\ composing[c].rest = <<>>
  /\ \/ Composing(c, "storing", [composing[c] EXCEPT !.at = "composed", !.made = made])
     \/ /\ \E i \in DOMAIN made : ~made[i].whole
        /\ Composing(c, "storing", [NoComposition EXCEPT !.at = "failed"])
  /\ UNCHANGED <<store, pending>>

(***************************************************************************)
(* The choice of a model.  models maps the difficulties a provider has a   *)
(* model for to the model; its default need not be among them.             *)
(***************************************************************************)
Enabled(p) == p \in DOMAIN providers /\ providers[p].enabled

ModelForDifficulty(models, difficulty) ==
  LET higher == {d \in DOMAIN models : d >= difficulty} IN
  IF difficulty \in DOMAIN models THEN models[difficulty]
  ELSE IF higher # {} THEN models[CHOOSE d \in higher : \A e \in higher : d <= e]
  ELSE models[CHOOSE d \in DOMAIN models : \A e \in DOMAIN models : e <= d]

HasModel(p, m) == \E d \in DOMAIN providers[p].models : providers[p].models[d] = m

\* A provider that is named and enabled is taken, with the model that is named
\* if it has it; else the first in priority of those that have a model.
SelectProviderAndModel(named, model, difficulty) ==
  LET candidates == {p \in DOMAIN providers : Enabled(p) /\ DOMAIN providers[p].models # {}} IN
  IF Enabled(named)
  THEN {<<named, IF HasModel(named, model) THEN model ELSE providers[named].default>>}
  ELSE {<<p, ModelForDifficulty(providers[p].models, difficulty)>> :
          p \in {x \in candidates :
                   \A y \in candidates : providers[x].priority <= providers[y].priority}}

\* compose_and_generate asks by difficulty alone; without a candidate it fails.
Generate(c, difficulty) ==
  LET choices == SelectProviderAndModel("none", "none", difficulty) IN
  /\ composing[c].generates
  /\ \/ \E choice \in choices :
          Composing(c, "composed", [composing[c] EXCEPT !.at = "asked", !.chosen = choice,
                                                        !.difficulty = difficulty])
     \/ choices = {} /\ Composing(c, "composed", [NoComposition EXCEPT !.at = "failed"])
  /\ UNCHANGED <<store, pending>>

\* The client answers, fails, or is given up after the timeout.
ModelAnswers(c, how) ==
  /\ Composing(c, "asked", [NoComposition EXCEPT !.at = how])
  /\ UNCHANGED <<store, pending>>

\* submit_request notes a request that nothing removes: the spawned call's
\* result is dropped, and wait_for_response answers an error.
SubmitRequest(c, named, model, difficulty) ==
  /\ Composing(c, "new", [composing[c] EXCEPT !.at = "submitted"])
  /\ SelectProviderAndModel(named, model, difficulty) # {}
  /\ pending' = pending \union {c}
  /\ UNCHANGED store

AwaitResponse(c) ==
  /\ c \in pending
  /\ Composing(c, "submitted", [composing[c] EXCEPT !.at = "failed"])
  /\ UNCHANGED <<store, pending>>

ComposerNext ==
  \/ \E b \in Blocks, content \in Contents : UpsertBlock(b, content)
  \/ \E b \in Blocks : RemoveBlock(b)
  \/ ClearAllBlocks
  \/ \E c \in Compositions :
       \/ \E profile \in Profiles : ListBlocks(c, profile)
       \/ \E profile \in Profiles, t, u \in ServedTypes :
            ServeCompose(c, profile, <<t, u>>)
       \/ StoreGiven(c)
       \/ Compose(c)
       \/ \E difficulty \in 0..4 : Generate(c, difficulty)
       \/ \E how \in {"answered", "failed"} : ModelAnswers(c, how)
       \/ \E p \in DOMAIN providers, difficulty \in 0..4 :
            SubmitRequest(c, p, providers[p].default, difficulty)
       \/ AwaitResponse(c)

ComposerSpec == ComposerInit /\ [][ComposerNext]_composerVars

(***************************************************************************)
(* Properties                                                              *)
(***************************************************************************)
ComposerTypeOK ==
  /\ store \in [Ids -> Contents \union {ServedBlock(t) : t \in ServedTypes} \union {NoBlock}]
  /\ providers \in Configs
  /\ \A c \in Compositions :
       /\ composing[c].at \in {"new", "storing", "composed", "asked", "answered",
                               "submitted", "failed"}
       /\ composing[c].profile \in Profiles
       /\ composing[c].rest # <<>> => composing[c].at = "storing"
  /\ pending \subseteq {c \in Compositions : composing[c].at \in {"submitted", "failed"}}

TokensOf(entries) ==
  LET upTo[k \in 0..Len(entries)] ==
        IF k = 0 THEN 0 ELSE upTo[k - 1] + entries[k].content.tokens
  IN upTo[Len(entries)]

\* What is composed is within the budget; of every two blocks that were given,
\* one that is left out is not before one that is taken; only the last may be
\* cut, and then the budget is used up; and where a block is left out otherwise,
\* no more than the tokens a cut needs were left.
PromptFits(profile, given, made) ==
  LET taken == {made[i].id : i \in DOMAIN made}
      left == {i \in DOMAIN given : given[i].id \notin taken}
      original(x) == given[CHOOSE i \in DOMAIN given : given[i].id = x.id]
      spare == TokenBudget[profile] - TokensOf(made)
  IN /\ spare >= 0
     /\ \A i, j \in DOMAIN made : i < j => ~Before(profile, made[j], made[i])
     /\ \A i \in left, j \in DOMAIN made : ~Before(profile, given[i], original(made[j]))
     /\ \A i \in DOMAIN made : made[i].whole \/ (i = Len(made) /\ spare = 0)
     /\ left # {} =>
          \/ made # <<>> /\ ~Last(made).whole
          \/ spare <= Truncatable /\ \E i \in left : given[i].content.tokens > spare

\* The model is one of an enabled provider with the lowest priority number; it is
\* no weaker than the task needs while this provider has such a one, and no
\* stronger than it needs while this provider has a weaker one that will do.
ModelFits(choice, difficulty) ==
  LET p == choice[1]
      models == providers[p].models
  IN /\ Enabled(p)
     /\ \A q \in DOMAIN providers :
          Enabled(q) /\ DOMAIN providers[q].models # {} =>
            providers[p].priority <= providers[q].priority
     /\ \E d \in DOMAIN models :
          /\ models[d] = choice[2]
          /\ d < difficulty => \A e \in DOMAIN models : e <= d
          /\ d > difficulty => \A e \in DOMAIN models : e < d => e < difficulty

\* A generation asks a model that fits the difficulty with a context that fits
\* the profile: compose_blocks and select_provider_and_model give what their
\* callers rely on, whatever the store held and in whichever order it was listed.
GenerationFits ==
  \A c \in Compositions :
    LET g == composing[c] IN
    /\ g.at \in {"composed", "asked"} => PromptFits(g.profile, g.given, g.made)
    /\ g.at = "asked" => ModelFits(g.chosen, g.difficulty)

=============================================================================
