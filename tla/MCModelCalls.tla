--------------------------- MODULE MCModelCalls ---------------------------
(* TLC instance of ModelCalls: two codex workers that take turns at the    *)
(* route, an agy and an ollama worker, and policy files of which one does  *)
(* not validate.                                                           *)
EXTENDS ModelCalls

worker(provider, model) ==
  [provider |-> provider, model |-> model, state |-> "ADMITTED", available |-> TRUE,
   roles |-> {"build", "review"}, ceiling |-> 2, context |-> 2, requires |-> {},
   read_only |-> FALSE, regressed |-> FALSE, default_route |-> FALSE, successor |-> "no"]

workers ==
  [luna |-> [worker("codex", "m1") EXCEPT !.default_route = TRUE],
   sol |-> [worker("codex", "m2") EXCEPT !.state = "EXPERIMENT_ONLY"],
   flash |-> [worker("agy", "m3") EXCEPT !.requires = {"scope"}],
   small |-> [worker("ollama", "m4") EXCEPT !.read_only = TRUE]]

Luna ==
  [headers |-> TRUE, workers |-> workers, online |-> [build |-> "luna"], qualified |-> {},
   defaults |-> [build |-> [current |-> "luna", fallback |-> NoWorker]],
   fallbacks |-> [build |-> NoWorker], campaign |-> [build |-> "flash"],
   consumer |-> [review |-> "luna"], local_first |-> [compact_diagnosis |-> "small"]]

\* The route moves to sol and luna is taken out of service.
Sol ==
  [Luna EXCEPT !.workers["luna"].state = "DISABLED", !.workers["luna"].default_route = FALSE,
               !.workers["sol"].state = "ADMITTED", !.workers["sol"].default_route = TRUE,
               !.online["build"] = "sol", !.defaults["build"].current = "sol",
               !.consumer["review"] = "sol"]

\* Luna is taken out of service and the routes are forgotten.
Broken == [Luna EXCEPT !.workers["luna"].state = "DISABLED"]

MCPolicies == [luna |-> Luna, sol |-> Sol, broken |-> Broken]

file(word, approved) ==
  [state |-> "file", policy |-> word, approved |-> approved, transfer |-> TRUE]
MCWorkspaces ==
  {[file("deny", {}) EXCEPT !.state = "absent"], file("deny", {}), file("auto", {}),
   [file("auto", {}) EXCEPT !.transfer = FALSE], file("require", {"agy"})}

demand(channel, mutates) ==
  [channel |-> channel, role |-> "build", autonomy |-> 2, context |-> 2, mutates |-> mutates,
   authorized |-> TRUE]
binding(id) ==
  [sound |-> TRUE, worker |-> id, provider |-> NoWorker, model |-> NoWorker,
   controls |-> {"scope"}, experiment |-> FALSE]
cli(provider, model, cmd) ==
  [physical |-> TRUE, provider |-> provider, transport |-> NoWorker, invoker |-> provider,
   dispatcher |-> FALSE, model |-> model, command |-> cmd]
environment(override) ==
  [override |-> override, credentials |-> FALSE, binary |-> TRUE, command |-> NoWorker]

\* Online through codex, routed.
Base ==
  [local |-> FALSE, routed |-> TRUE, demands |-> <<demand("online", TRUE)>>,
   bindings |-> [online |-> binding(NoWorker)], model |-> NoWorker, mutates |-> TRUE,
   closable |-> TRUE, task |-> "auto", hint |-> "none", invoker |-> cli("codex", NoWorker, NoWorker),
   env |-> environment(FALSE), prompt |-> "plain", package |-> "valid"]

\* Local first, by an executor or by an advisor.
WithLocal(mutates) ==
  [Base EXCEPT !.local = TRUE, !.mutates = mutates,
     !.demands = <<demand("local", mutates), demand("online", mutates)>>,
     !.bindings = [local |-> binding(IF mutates THEN "flash" ELSE "small"),
                   online |-> binding(NoWorker)]]

bound(model) == [shape |-> "bound", model |-> model]

\* Every way to be authorized or not, to name the model, and to use Local.
MCRequests ==
  {[Base EXCEPT !.task = t, !.hint = h, !.env = environment(o)] :
     t \in {"", "deny", "require"}, h \in {"none", "deny", "allow"}, o \in BOOLEAN} \cup
  {[Base EXCEPT !.routed = FALSE, !.bindings["online"].worker = w,
                !.bindings["online"].experiment = x, !.invoker = cli("codex", m, c)] :
     w \in {"luna", "sol"}, x \in BOOLEAN, m \in {NoWorker, "m1", "m2"},
     c \in {NoWorker, bound("m2")}} \cup
  {[Base EXCEPT !.bindings["online"].worker = "flash", !.routed = FALSE,
                !.invoker = cli("agy", NoWorker, c)] :
     c \in {NoWorker, [bound("m3") EXCEPT !.shape = "bypass"]}} \cup
  {[Base EXCEPT !.invoker.physical = FALSE, !.task = "", !.hint = "injected"],
   WithLocal(TRUE), WithLocal(FALSE), [WithLocal(FALSE) EXCEPT !.demands = Tail(@)]}

MCLocalAnswers ==
  [task : {"same", "other"}, invoked : {TRUE}, delivered : BOOLEAN, evidence : {TRUE},
   action : {"advisor", "candidate"}, callable : {"executor", "provider"}, executor : BOOLEAN,
   claim : {"none"}, clean : BOOLEAN, isolated : BOOLEAN, verifier : {"none", "pass", "fail"},
   disk : {TRUE}, advisory : {"none", "open", "closed", "invalid"},
   packet : {"none", "missing", "same", "substituted"}]

MCExits ==
  {[code |-> c, text |-> TRUE, denied |-> FALSE, identity |-> TRUE, finished |-> TRUE] : c \in {0, 1}}
====
