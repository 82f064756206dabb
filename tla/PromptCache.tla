------------------------------ MODULE PromptCache ------------------------------
(***************************************************************************)
(* The caches of prompts (kernel-v2/src/config): the prompt composer       *)
(* (prompt_composer.rs) keeps compositions and the prompts made from them, *)
(* the prompt loader (prompt_loader.rs) keeps one file.  A file is known   *)
(* by its version, a prompt by the versions of the composition and of the  *)
(* assets that went into it.                                               *)
(*                                                                         *)
(* The maps are behind RwLocks held for one access each; an action is one  *)
(* access of a map or one read of files.                                   *)
(***************************************************************************)
EXTENDS Integers, FiniteSets

CONSTANTS
  Uses,         \* calls of the composer and of the loader
  MaxEdits      \* bound on the edits of files

ASSUME CacheAssumption == IsFiniteSet(Uses) /\ MaxEdits \in Nat

VARIABLES
  use,          \* where each call is, its key and what it has read
  edits,        \* the versions of the files: [yaml, asset]
  composition,  \* the versions of the composition in memory, at most one
  prompt,       \* the prompts in memory: at most one for each key
  floor,        \* history: versions since which each key was refreshed
  overtaken     \* history: keys filled with what was read before a refresh

cacheVars == <<use, edits, composition, prompt, floor, overtaken>>

\* "full" and "static" are prompts of the composer, "thread" is the loader's.
Keys == {"full", "static", "thread"}
Oldest == [yaml |-> 0, asset |-> 0]
NewUse == [at |-> "idle", key |-> {}, reload |-> FALSE, since |-> Oldest,
           yaml |-> {}, part |-> {}, old |-> FALSE]

Finished == [NewUse EXCEPT !.at = "done"]

CacheInit ==
  /\ use = [c \in Uses |-> NewUse]
  /\ edits = Oldest
  /\ composition = {}
  /\ prompt = [k \in Keys |-> {}]
  /\ floor = [k \in Keys |-> Oldest]
  /\ overtaken = {}

EditFile(file) ==
  /\ edits.yaml + edits.asset < MaxEdits
  /\ edits' = [edits EXCEPT ![file] = @ + 1]
  /\ UNCHANGED <<use, composition, prompt, floor, overtaken>>

Step(c, place) == use' = [use EXCEPT ![c].at = place]

(* compose, compose_static and get: look, load, keep. *)

BeginUse(c, key, reload, place) ==
  /\ use[c].at = "idle"
  /\ use' = [use EXCEPT ![c] =
       [NewUse EXCEPT !.at = place, !.key = key, !.reload = reload, !.since = edits]]
  /\ UNCHANGED <<edits, composition, prompt, floor, overtaken>>

\* When a reload is over, its key is as fresh as when the reload was asked for.
Refreshed(c) ==
  floor' = [k \in Keys |-> IF use[c].reload /\ k \in use[c].key THEN use[c].since ELSE floor[k]]

LookUp(c) ==
  /\ use[c].at = "lookup"
  /\ \E k \in use[c].key :
       IF prompt[k] # {}
       THEN use' = [use EXCEPT ![c] = Finished] /\ Refreshed(c)
       ELSE Step(c, IF k = "thread" THEN "reading" ELSE "loading") /\ UNCHANGED floor
  /\ UNCHANGED <<edits, composition, prompt, overtaken>>

ClearUnderWay == \E d \in Uses : use[d].at = "clearing"

\* load_composition: from memory, or from the file and into memory.
LoadComposition(c, next) ==
  /\ use' = [use EXCEPT ![c].at = IF composition # {} THEN next ELSE "storing",
                        ![c].yaml = IF composition # {} THEN composition ELSE {edits.yaml},
                        ![c].old = @ \/ ClearUnderWay]
  /\ UNCHANGED <<edits, composition, prompt, floor, overtaken>>

StoreComposition(c) ==
  /\ use[c].at = "storing"
  /\ composition' = use[c].yaml
  /\ overtaken' = IF use[c].old THEN overtaken \cup {"full", "static"} ELSE overtaken
  /\ Step(c, "reading")
  /\ UNCHANGED <<edits, prompt, floor>>

ReadAssets(c) ==
  /\ use[c].at = "reading"
  /\ use' = [use EXCEPT ![c].at = "keeping", ![c].part =
       {[yaml |-> y, asset |-> edits.asset] : y \in use[c].yaml \cup (IF use[c].yaml = {} THEN {0} ELSE {})}]
  /\ UNCHANGED <<edits, composition, prompt, floor, overtaken>>

\* A required asset, or the loader's file, cannot be read.
ReadFails(c) ==
  /\ use[c].at = "reading"
  /\ use' = [use EXCEPT ![c] = Finished]
  /\ UNCHANGED <<edits, composition, prompt, floor, overtaken>>

\* compose_with_context keeps no prompt.
KeepPrompt(c) ==
  /\ use[c].at = "keeping"
  /\ prompt' = [k \in Keys |-> IF k \in use[c].key THEN use[c].part ELSE prompt[k]]
  /\ overtaken' = IF use[c].old THEN overtaken \cup use[c].key ELSE overtaken
  /\ Refreshed(c)
  /\ use' = [use EXCEPT ![c] = Finished]
  /\ UNCHANGED <<edits, composition>>

(* reload of the composer: both maps forget the name, then it is composed. *)
(* What others have read before is old from here on.                       *)

Aged(c) == [d \in Uses |-> IF d # c /\ use[d].at \in {"loading", "storing", "reading", "keeping"}
                           THEN [use[d] EXCEPT !.old = TRUE] ELSE use[d]]

\* Mutant: the composition stays in memory.
ForgetNothing(c) ==
  /\ use[c].at = "removing"
  /\ use' = [Aged(c) EXCEPT ![c].at = "forgetting"]
  /\ UNCHANGED <<edits, composition, prompt, floor, overtaken>>

ForgetComposition(c) ==
  /\ use[c].at = "removing"
  /\ composition' = {}
  /\ use' = [Aged(c) EXCEPT ![c].at = "forgetting"]
  /\ UNCHANGED <<edits, prompt, floor, overtaken>>

ForgetPrompt(c) ==
  /\ use[c].at = "forgetting"
  /\ prompt' = [prompt EXCEPT !["full"] = {}]
  /\ use' = [Aged(c) EXCEPT ![c].at = "lookup"]
  /\ UNCHANGED <<edits, composition, floor, overtaken>>

(* clear_cache: the prompts, then the compositions. *)

ClearPrompts(c) ==
  /\ use[c].at = "idle"
  /\ prompt' = [prompt EXCEPT !["full"] = {}, !["static"] = {}]
  /\ use' = [Aged(c) EXCEPT ![c] = [NewUse EXCEPT !.at = "clearing", !.since = edits]]
  /\ UNCHANGED <<edits, composition, floor, overtaken>>

ClearCompositions(c) ==
  /\ use[c].at = "clearing"
  /\ composition' = {}
  /\ floor' = [floor EXCEPT !["full"] = use[c].since, !["static"] = use[c].since]
  /\ use' = [Aged(c) EXCEPT ![c] = Finished]
  /\ UNCHANGED <<edits, prompt, overtaken>>

(* The loader: reload reads the file and keeps it, clear_cache forgets it. *)

ClearLoader(c) ==
  /\ use[c].at = "idle"
  /\ prompt' = [prompt EXCEPT !["thread"] = {}]
  /\ floor' = [floor EXCEPT !["thread"] = edits]
  /\ use' = [Aged(c) EXCEPT ![c] = Finished]
  /\ UNCHANGED <<edits, composition, overtaken>>

ReloadLoader(c) ==
  /\ use[c].at = "idle"
  /\ use' = [Aged(c) EXCEPT ![c] =
       [NewUse EXCEPT !.at = "reading", !.key = {"thread"}, !.reload = TRUE, !.since = edits]]
  /\ UNCHANGED <<edits, composition, prompt, floor, overtaken>>

CacheNext ==
  \/ \E file \in {"yaml", "asset"} : EditFile(file)
  \/ \E c \in Uses :
       \/ \E k \in Keys : BeginUse(c, {k}, FALSE, "lookup")
       \/ BeginUse(c, {}, FALSE, "loading")
       \/ BeginUse(c, {"full"}, TRUE, "removing")
       \/ ForgetComposition(c) \/ ForgetPrompt(c)
       \/ LookUp(c)
       \/ use[c].at = "loading" /\ LoadComposition(c, "reading")
       \/ StoreComposition(c) \/ ReadAssets(c) \/ ReadFails(c) \/ KeepPrompt(c)
       \/ ClearPrompts(c) \/ ClearCompositions(c)
       \/ ClearLoader(c) \/ ReloadLoader(c)

CacheSpec == CacheInit /\ [][CacheNext]_cacheVars

-----------------------------------------------------------------------------
(* Properties *)

CacheTypeOK ==
  LET Versions == [yaml : 0..MaxEdits, asset : 0..MaxEdits] IN
  /\ use \in [Uses -> [at : {"idle", "lookup", "loading", "storing", "reading", "keeping",
                             "removing", "forgetting", "clearing", "done"},
                       key : SUBSET Keys, reload : BOOLEAN, since : Versions,
                       yaml : SUBSET (0..MaxEdits), part : SUBSET Versions, old : BOOLEAN]]
  /\ edits \in Versions
  /\ composition \subseteq 0..MaxEdits /\ Cardinality(composition) <= 1
  /\ prompt \in [Keys -> SUBSET Versions]
  /\ floor \in [Keys -> Versions]
  /\ overtaken \subseteq Keys

\* After a reload or a clear has returned, a cached prompt has nothing in it that
\* is older than that call, unless another call has since stored what it had read
\* before its key was forgotten.  (reload forgets two maps and fills them again,
\* while other calls look up, read files and fill them too.)
CacheIsFresh ==
  \A k \in Keys \ overtaken : \A v \in prompt[k] :
    /\ v.asset >= floor[k].asset
    /\ k # "thread" => v.yaml >= floor[k].yaml

=============================================================================
