--------------------------- MODULE StartupMapper ---------------------------
(***************************************************************************)
(* How a startup line becomes a command: ptero-wings-controller/startup.go.*)
(* A text is a sequence of symbols: letters, a space, the two quotes, the  *)
(* backslash, and {{NAME}} as one symbol for each variable.  (A value that *)
(* completes a half-written {{ is left out.)                               *)
(*                                                                         *)
(* Variables are a function from names to texts.  Go visits the map of     *)
(* expandStartup in any order: order is a sequence of its names.           *)
(***************************************************************************)
EXTENDS Naturals, SequencesExt

Space == " "
Escape == "\\"
Quotes == {"'", "\""}
NoQuote == ""

Placeholder(name) == "{{" \o name \o "}}"

-----------------------------------------------------------------------------
(* Variables. *)

\* The variables of the startup spec win over the environment; an environment
\* variable without a value is not there.
mergedVariables(variables, env) ==
  LET set == {name \in DOMAIN env : env[name] # <<>>}
  IN  [name \in DOMAIN variables \cup set |->
         IF name \in DOMAIN variables THEN variables[name] ELSE env[name]]

\* Mutant: only the first occurrence is replaced.
SubstituteFirst(text, name, value) ==
  FlattenSeq([i \in DOMAIN text |->
                IF /\ text[i] = Placeholder(name)
                   /\ \A j \in 1 .. i - 1 : text[j] # text[i]
                THEN value ELSE <<text[i]>>])

\* strings.ReplaceAll
Substitute(text, name, value) ==
  FlattenSeq([i \in DOMAIN text |->
                IF text[i] = Placeholder(name) THEN value ELSE <<text[i]>>])

expandStartup(raw, vars, order) ==
  LET text[i \in 0 .. Len(order)] ==
        IF i = 0 THEN raw ELSE Substitute(text[i - 1], order[i], vars[order[i]])
  IN  text[Len(order)]

-----------------------------------------------------------------------------
(* splitCommand. *)

\* A token ends; an empty one is dropped, quoted or not.
flush(s) ==
  IF s.current = <<>> THEN s
  ELSE [s EXCEPT !.tokens = Append(@, s.current), !.current = <<>>]

WriteRune(s, ch) == [s EXCEPT !.current = Append(@, ch)]

\* Mutant: a backslash between single quotes is an ordinary symbol.
splitStepLiteral(s, ch) ==
  IF s.escaped THEN [WriteRune(s, ch) EXCEPT !.escaped = FALSE]
  ELSE IF ch = Escape /\ s.quote # "'" THEN [s EXCEPT !.escaped = TRUE]
  ELSE IF s.quote # NoQuote THEN IF ch = s.quote THEN [s EXCEPT !.quote = NoQuote]
                            ELSE WriteRune(s, ch)
  ELSE IF ch \in Quotes THEN [s EXCEPT !.quote = ch]
  ELSE IF ch = Space THEN flush(s)
  ELSE WriteRune(s, ch)

\* One symbol: the cases are tried in this order, so a backslash escapes the
\* next symbol between quotes too.
splitStep(s, ch) ==
  IF s.escaped THEN [WriteRune(s, ch) EXCEPT !.escaped = FALSE]
  ELSE IF ch = Escape THEN [s EXCEPT !.escaped = TRUE]
  ELSE IF s.quote # NoQuote THEN IF ch = s.quote THEN [s EXCEPT !.quote = NoQuote]
                            ELSE WriteRune(s, ch)
  ELSE IF ch \in Quotes THEN [s EXCEPT !.quote = ch]
  ELSE IF ch = Space THEN flush(s)
  ELSE WriteRune(s, ch)

\* The loop over the symbols.
scan(raw) ==
  LET s[i \in 0 .. Len(raw)] ==
        IF i = 0 THEN [tokens |-> <<>>, current |-> <<>>, quote |-> NoQuote,
                       escaped |-> FALSE]
        ELSE splitStep(s[i - 1], raw[i])
  IN  s[Len(raw)]

\* An escape or a quote that is not closed is an error.
splitCommand(raw) ==
  LET end == scan(raw)
  IN  [ok |-> ~ end.escaped /\ end.quote = NoQuote, tokens |-> flush(end).tokens]

-----------------------------------------------------------------------------
(* Resolve. *)

Blank(raw) == \A i \in DOMAIN raw : raw[i] = Space

\* set = FALSE: nil, nil.  With a command the arguments are never nil.
Nothing == [ok |-> TRUE, set |-> FALSE, command |-> <<>>, args |-> <<>>]

Resolve(raw, variables, env, order) ==
  LET split == splitCommand(expandStartup(raw, mergedVariables(variables, env), order))
  IN  IF Blank(raw) THEN Nothing
      ELSE IF ~ split.ok THEN [Nothing EXCEPT !.ok = FALSE]
      ELSE IF split.tokens = <<>> THEN Nothing
      ELSE [ok |-> TRUE, set |-> TRUE, command |-> <<Head(split.tokens)>>,
            args |-> Tail(split.tokens)]
=============================================================================
