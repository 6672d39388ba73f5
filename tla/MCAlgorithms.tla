--------------------------- MODULE MCAlgorithms ---------------------------
(***************************************************************************)
(* The pure parts over every bounded input: one call of Allocate, of       *)
(* splitCommand or of Resolve, and a create request or a manifest followed *)
(* by a pass of the operator.                                              *)
(***************************************************************************)
EXTENDS PortAllocator, EffectiveSpec

VARIABLES input,    \* what is called, and with what
          output    \* what it returned; stage tells how far the case is

vars == <<input, output>>

-----------------------------------------------------------------------------
(* Bounds: ports. *)

\* Requested ports may lie just outside the configured range.
AskedStarts == {0} \cup (MinPort - 1) .. (MaxPort + 1)
AskedCounts == {-1, 0, 1, 2}
AskedNodes  == {0, MinPort}
MaxListed   == 3

ListedPorts ==
  BoundedSeq([name : {NoName}, container : {7}, node : AskedNodes], MaxListed)

AskedAllocations ==
  {NoAllocation} \cup
    [present : {TRUE}, start : AskedStarts, count : AskedCounts, base : {0, 5}]

AllocateInputs ==
  [call : {"Allocate"}, used : SUBSET (MinPort .. MaxPort),
   asked : [ports : ListedPorts, alloc : AskedAllocations]]

-----------------------------------------------------------------------------
(* Bounds: texts. *)

Letters == {"a", "b"}
Special == {Space, Escape} \cup Quotes
Names == {"A", "B"}

\* {{NAME}} is a symbol of its own for every name.
ASSUME PlaceholderAssumption ==
  \A n \in Names : /\ Placeholder(n) \notin Letters \cup Special
                   /\ \A m \in Names : Placeholder(m) = Placeholder(n) => m = n

MaxToken == 2
MaxTokens == 3
MaxRaw == 4

Tokens == BoundedSeq({"a"} \cup Special, MaxToken) \ {<<>>}
SplitInputs == [call : {"splitCommand"}, tokens : BoundedSeq(Tokens, MaxTokens)]

\* Values of letters only, empty, or with another variable's placeholder.
Values == {<<>>, <<"a">>, <<"b", "a">>}
Nested == {<<Placeholder("B")>>}

Assignments(names, values) == UNION {[S -> values] : S \in SUBSET names}

Raws == BoundedSeq({"a", Space, Escape, "'", Placeholder("A"), Placeholder("B")},
                   MaxRaw)

ResolveInputs ==
  [call : {"Resolve"}, raw : Raws, variables : Assignments({"A"}, Values),
   env : Assignments(Names, {<<>>, <<"b">>})]

-----------------------------------------------------------------------------
(* Bounds: specs. *)

Startups ==
  {NoStartup} \cup
    [present : {TRUE},
     raw : {<<Space>>, <<"a", "'">>, <<Placeholder("A")>>,
            <<"a", Space, Placeholder("A"), Placeholder("B")>>},
     variables : Assignments(Names, {<<>>, <<"b", Space>>} \cup Nested)]

Lists == {NoList, [cpu |-> 1], [cpu |-> 2], [memory |-> 1], [cpu |-> 1, memory |-> 2]}

Manifests ==
  {[EmptySpec EXCEPT !.image = "i", !.startup = s, !.command = c, !.args = a] :
     s \in Startups, c \in {<<>>, <<<<"c">>>>}, a \in {<<>>, <<<<"d">>>>}}
  \cup {[EmptySpec EXCEPT !.requests = r, !.limits = l] : r \in Lists, l \in Lists}

CreateRequests ==
  {[image |-> i, env |-> e, limits |-> l, disk |-> 1,
    startup |-> s.raw, variables |-> s.variables] :
     i \in {"i"}, e \in Assignments({"A"}, Values), s \in Startups,
     l \in {[cpu |-> 0, memory |-> 0], [cpu |-> 5, memory |-> 1],
            [cpu |-> 25, memory |-> 0]}}

Classes ==
  {[NoClass EXCEPT !.image = "j", !.command = c, !.args = a, !.startup = s,
                   !.requests = r, !.limits = l] :
     c \in {<<>>, <<<<"e">>>>}, a \in {<<>>, <<<<"f">>>>},
     s \in {NoStartup, [present |-> TRUE, raw |-> <<"b">>, variables |-> <<>>]},
     r \in {NoList, [cpu |-> 2]}, l \in {NoList, [cpu |-> 2, memory |-> 3]}}

-----------------------------------------------------------------------------
(* The calls. *)

Waiting == [stage |-> "start"]

Init ==
  /\ input \in AllocateInputs \cup SplitInputs \cup ResolveInputs
               \cup [call : {"create"}, req : CreateRequests, class : Classes]
               \cup [call : {"manifest"}, spec : Manifests, class : Classes]
  /\ output = Waiting

Call(name, stage) == input.call = name /\ output.stage = stage /\ UNCHANGED input

\* Any order of the variables.
Orders(variables, env) == SetToSeqs(DOMAIN mergedVariables(variables, env))

\* A shell-like quotation of a token, in the rules of splitCommand.
Quoted(token) ==
  <<"'">> \o FlattenSeq([i \in DOMAIN token |->
                           IF token[i] \in {"'", Escape} THEN <<Escape, token[i]>>
                           ELSE <<token[i]>>]) \o <<"'">>

Joined(tokens) == FlattenSeq([i \in DOMAIN tokens |-> Quoted(tokens[i]) \o <<Space>>])

CallAllocate ==
  /\ Call("Allocate", "start")
  /\ output' = [stage |-> "end", result |-> Allocate(input.asked, input.used)]

CallSplitCommand ==
  /\ Call("splitCommand", "start")
  /\ output' = [stage |-> "end", result |-> splitCommand(Joined(input.tokens))]

CallResolve ==
  /\ Call("Resolve", "start")
  /\ \E order \in Orders(input.variables, input.env) :
       output' = [stage |-> "end",
                  result |-> Resolve(input.raw, input.variables, input.env, order)]

\* The gateway stores what gameServerFromRequest returns, or nothing.
CreateRequest ==
  /\ Call("create", "start")
  /\ \E order \in Orders(input.req.variables, input.req.env) :
       LET made == gameServerFromRequest(input.req, order)
       IN  output' = [stage |-> IF made.ok THEN "stored" ELSE "end",
                      stored |-> made.spec]

ApplyManifest ==
  /\ Call("manifest", "start")
  /\ output' = [stage |-> "stored", stored |-> input.spec]

\* The variables of the merged spec, in any order.
Pass ==
  /\ output.stage = "stored" /\ UNCHANGED input
  /\ LET spec == MergeWithClass(output.stored, input.class)
     IN  \E order \in Orders(spec.startup.variables, spec.env) :
           output' = [stage |-> "rendered", stored |-> output.stored,
                      result |-> Effective(output.stored, input.class, order)]

Next ==
  \/ CallAllocate \/ CallSplitCommand \/ CallResolve
  \/ CreateRequest \/ ApplyManifest \/ Pass

Spec == Init /\ [][Next]_vars

-----------------------------------------------------------------------------
(* Properties: ports. *)

Ended(name) == input.call = name /\ output.stage = "end"

\* The ports a reference allocator may hand out: a contiguous run of the right
\* size inside the interval, none of it taken.
IsFreeRun(run, size) ==
  /\ run \subseteq (MinPort .. MaxPort) \ input.used
  /\ Cardinality(run) = size
  /\ \A p, q \in run : p .. q \subseteq run

\* Reference for the search: a request without a start is refused exactly when
\* no contiguous free run exists, and otherwise gets the lowest one (the loop
\* bound maxPort-size+1 of findFreeRange skips no run).
LowestFreeRun ==
  Ended("Allocate") /\ input.asked.alloc.present /\ input.asked.alloc.start = 0 =>
    LET size == rangeSize(input.asked)
        runs == {run \in SUBSET (MinPort .. MaxPort) : IsFreeRun(run, size)}
    IN  IF ~ output.result.ok THEN runs = {}
        ELSE LET s == output.result.net.alloc.start
             IN  /\ PortRange(s, size) \in runs
                 /\ \A run \in runs : \A p \in run : p >= s

\* When the listed ports fit the range, everything the new server will count as
\* reserved was checked: it lies in the configured interval and no other
\* server holds any of it.
ReservedWasFree ==
  /\ Ended("Allocate") /\ input.asked.alloc.present /\ output.result.ok
  /\ fits(input.asked)
  => /\ Reserved(output.result.net) \subseteq (MinPort .. MaxPort) \ input.used
     /\ Cardinality(Reserved(output.result.net)) = rangeSize(input.asked)

\* Allocate on its own result, with the same competitors, changes nothing: the
\* operator, which runs it again on the spec the controller stored, keeps the
\* ports the controller chose.
AllocateIsIdempotent ==
  Ended("Allocate") /\ output.result.ok =>
    Allocate(output.result.net, input.used) = output.result

-----------------------------------------------------------------------------
(* Properties: startup commands. *)

\* splitCommand undoes quoting: any list of tokens, with spaces, quotes and
\* backslashes in them, is given back when each token is put in single quotes
\* with its backslashes and quotes escaped.
SplitUndoesQuoting ==
  Ended("splitCommand") => output.result = [ok |-> TRUE, tokens |-> input.tokens]

\* A symbol, or the value of the variable whose placeholder it is.
Image(symbol, merged) ==
  LET named == {n \in DOMAIN merged : Placeholder(n) = symbol}
  IN  IF named = {} THEN <<symbol>> ELSE merged[CHOOSE n \in named : TRUE]

\* A text with every placeholder replaced at once.
Replaced(text, merged) == FlattenSeq([i \in DOMAIN text |-> Image(text[i], merged)])

\* The tokens with their placeholders replaced, without the empty ones.
ReplacedTokens(tokens, merged) ==
  FlattenSeq([i \in DOMAIN tokens |->
                LET t == Replaced(tokens[i], merged) IN IF t = <<>> THEN <<>> ELSE <<t>>])

\* Values of letters cannot disturb the tokens: expanding the line and then
\* splitting it, in whatever order Go visits the variables, gives the tokens of
\* the line as written, each with its placeholders replaced at once; a token
\* whose values are all empty disappears.  Only a backslash before an empty
\* value does more: it escapes what comes next.
ExpansionKeepsTokens ==
  LET merged == mergedVariables(input.variables, input.env)
      split == splitCommand(input.raw)
  IN  /\ Ended("Resolve")
      /\ \A i \in 2 .. Len(input.raw) :
           input.raw[i - 1] = Escape => Image(input.raw[i], merged) # <<>>
      => IF ~ split.ok THEN ~ output.result.ok
         ELSE /\ output.result.ok
              /\ output.result.command \o output.result.args =
                   ReplacedTokens(split.tokens, merged)

-----------------------------------------------------------------------------
(* Properties: effective specs. *)

Rendered == output.stage = "rendered"

\* No value contains a placeholder.
Flat(variables, env) ==
  \A v \in Range(variables) \cup Range(env) : \A i \in DOMAIN v :
    v[i] \notin {Placeholder(n) : n \in Names}

\* A startup line of the server's own decides the whole command: neither a
\* class, whatever it sets, nor the order of the variables changes what a pass
\* renders, and for a server the gateway created it is the command stored at
\* the start.
OwnStartupDecides ==
  Rendered /\ output.stored.startup.present =>
    LET s == output.stored
    IN  \A order \in Orders(s.startup.variables, s.env) :
          LET own == Resolve(s.startup.raw, s.startup.variables, s.env, order)
          IN  own.set /\ Flat(s.startup.variables, s.env) =>
                /\ output.result.spec.command = own.command
                /\ output.result.spec.args = own.args
                /\ input.call = "create" =>
                     s.command = own.command /\ s.args = own.args

\* No request above its limit.
Within(requests, limits) ==
  \A r \in DOMAIN requests \cap DOMAIN limits : requests[r] <= limits[r]

\* Requests and limits are merged separately, and still agree: a spec that sets
\* both or none (as every spec the gateway writes does) never ends up with a
\* request above the limit, when the spec and the class are sound themselves.
MergedRequestsWithinLimits ==
  LET s == output.stored
  IN  /\ Rendered
      /\ (s.requests = NoList) = (s.limits = NoList)
      /\ Within(s.requests, s.limits)
      /\ Within(input.class.requests, input.class.limits)
      => Within(output.result.spec.requests, output.result.spec.limits)
=============================================================================
