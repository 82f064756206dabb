----------------------------- MODULE MCServices -----------------------------
(* The two parts of the gateway and the eight services of the kernel, for TLC: *)
(* one run checks them side by side without multiplying their states.          *)
EXTENDS Services

CONSTANTS r1, u1, s1, i1, i2, i3, t1,   \* gateway: requests, users, lanes, tasks
          c1, c2, c3, e1, e2, e3, h1,   \* kernel: calls, executors, threads
          k1, k2, fileMode, searchMode, \* tokens or tasks; execution modes
          b1, b2, openai, ark           \* blocks; providers

\* The gateway.  With one request a session that its client names is as good as
\* a new one, so none is named.
MCRequests == {r1}
MCUsers == {u1}
MCSessions == {}
MCLanes == {s1}
MCItems == {i1, i2, i3}
MCTimers == {t1}

\* Three calls at once, and three executors for one thread: one to end, one to
\* be killed, one more.
MCThree == {c1, c2, c3}
MCTwo == {c1, c2}
MCOne == {c1}
MCExecutors == {e1, e2, e3}
MCThread == {h1}
MCTasks2 == {k1, k2}

\* Two tokens of one subject, for two modes: the first for one call, the second
\* for two.
MCSubjectOf == [k \in MCTasks2 |-> "subject"]
MCMaxCalls == [k \in MCTasks2 |-> IF k = k1 THEN 1 ELSE 2]
MCModes == {fileMode, searchMode}
MCScopesOf == [k \in MCTasks2 |-> IF k = k1 THEN {fileMode} ELSE {searchMode}]

\* Four actions, three of them with one tool.
MCToolOf == <<"bash", "search", "bash", "bash">>

\* Two traces whose files have one name.
MCNameOf == [c \in MCThree |-> IF c = c1 THEN "a" ELSE "b"]

\* Blocks for the profiles that name their types: one that nearly fills the
\* budget of the first profile, one that is cut, and a small one.
MCBlocks == {b1, b2}
MCContents == {[type |-> 1, priority |-> 9, tokens |-> 1850],
               [type |-> 3, priority |-> 5, tokens |-> 1000],
               [type |-> 1, priority |-> 1, tokens |-> 50]}
\* The providers of from_env; a difficulty is mapped to a model.
MCOpenAi == [enabled |-> TRUE, priority |-> 1, default |-> "gpt-4",
             models |-> [d \in {1, 3} |-> IF d = 3 THEN "gpt-4" ELSE "gpt-3.5"]]
MCArk == [enabled |-> TRUE, priority |-> 2, default |-> "glm-4",
          models |-> [d \in {3} |-> "glm-4"]]
MCConfigs == {[p \in {openai, ark} |-> IF p = openai THEN MCOpenAi ELSE MCArk],
              [p \in {openai, ark} |-> IF p = openai THEN [MCOpenAi EXCEPT !.enabled = FALSE]
                                       ELSE MCArk]}

\* Skill calls: a command in both directories, execute_with_lock around one in
\* its own directory, and the three that the skills refuse.
MCFolders == {1, 2}
MCAsk(via, name, word, folders) ==
  [via |-> via, outer |-> 1, skill |-> name, tool |-> "execute", word |-> word,
   blocked |-> FALSE, folders |-> folders]
MCSkillRequests ==
  {MCAsk("direct", "bash", "cat", {1, 2}), MCAsk("locked", "bash", "grep", {1}),
   MCAsk("direct", "bash", "head", {2}), MCAsk("locked", "gateway", "none", {})}

\* One initial state of the components that do not move.
MCInit ==
  /\ Init
  /\ part = "registry" \/ onDisk = {}
  /\ part = "threads" \/ stored = {}
  /\ part = "parallel" \/ kind = "batch"
  /\ part = "composer" \/ Enabled(openai)

MCSpec == MCInit /\ [][Next]_vars /\ Fairness
=============================================================================
