--------------------------- MODULE SourceLanguage ---------------------------
(***************************************************************************)
(* What a function body means, by the ECMAScript rules for completions:    *)
(* the reference the compiled code is compared with.  Nothing here is      *)
(* translated from the repository.                                         *)
(*                                                                         *)
(* A call is a question to the world.  Its arguments are what the program  *)
(* says, and the world answers 1 or 0, or throws.  Meaning(body, answers)  *)
(* is what a body has said, and how it ended, when the world has given     *)
(* those answers.                                                          *)
(*                                                                         *)
(* Expressions  <<"val", v>>  <<"var", x>>  <<"assign", x, e>>  <<"inc", x>>*)
(*              <<"call", es>>  <<"cond", e, e, e>>  <<"and", e, e>>       *)
(*              <<"or", e, e>>                                             *)
(* Statements   <<"expr", e>>  <<"let", x, e>>  <<"block", ss>>            *)
(*              <<"if", e, s, s>>  <<"while", e, s>>  <<"do", s, e>>       *)
(*              <<"for", e, e, e, s>>  <<"switch", e, cases>>              *)
(*              <<"labeled", l, s>>  <<"break", l>>  <<"continue", l>>     *)
(*              <<"throw", e>>  <<"return", e>>                            *)
(*              <<"try", ss, param, catch, finally>>                       *)
(* where catch and finally are <<>> or <<ss>>, a case is <<test, ss>> with *)
(* the test <<>> for the default, and a label is "" when it is left out.   *)
(***************************************************************************)
EXTENDS SequencesExt, Integers

Uninitialized == -3
ReferenceError == -4
Thrown == -5           \* what a call throws
Falsy == {0, -1}

\* The variables a list of statements declares with let.
LetNames(ss) == {ss[i][2] : i \in {j \in DOMAIN ss : ss[j][1] = "let"}}

Value(s, v) == [s |-> s, c |-> <<"value", v>>]
Normal(s) == [s |-> s, c |-> <<"normal", 0>>]
Abrupt(s, kind, v) == [s |-> s, c |-> <<kind, v>>]

RECURSIVE Evaluate(_, _, _), EvaluateAll(_, _, _), Execute(_, _, _, _),
          ExecuteAll(_, _, _), Iterate(_, _, _, _, _)

Evaluate(e, s, answers) ==
    LET then(r, Op(_)) == IF r.c[1] = "value" THEN Op(r) ELSE r
        kind == e[1]
    IN
    CASE kind = "val" -> Value(s, e[2])
      [] kind = "var" ->
            IF s.env[e[2]] = Uninitialized THEN Abrupt(s, "throw", ReferenceError)
            ELSE Value(s, s.env[e[2]])
      [] kind = "assign" ->
            then(Evaluate(e[3], s, answers),
                 LAMBDA r: IF r.s.env[e[2]] = Uninitialized
                           THEN Abrupt(r.s, "throw", ReferenceError)
                           ELSE Value([r.s EXCEPT !.env[e[2]] = r.c[2]], r.c[2]))
      [] kind = "inc" ->
            then(Evaluate(<<"var", e[2]>>, s, answers),
                 LAMBDA r: Value([r.s EXCEPT !.env[e[2]] = r.c[2] + 1], r.c[2]))
      [] kind = "call" ->
            LET args == EvaluateAll(e[2], s, answers)
                n == Len(args.s.said) + 1
                said == [args.s EXCEPT !.said = Append(@, args.c[2])]
            IN  IF args.c[1] # "value" THEN args
                ELSE IF n > Len(answers) THEN Abrupt(said, "wait", 0)
                ELSE IF answers[n] = Thrown THEN Abrupt(said, "throw", Thrown)
                ELSE Value(said, answers[n])
      [] kind = "cond" ->
            then(Evaluate(e[2], s, answers),
                 LAMBDA r: Evaluate(IF r.c[2] \in Falsy THEN e[4] ELSE e[3], r.s, answers))
      [] kind = "and" ->
            then(Evaluate(e[2], s, answers),
                 LAMBDA r: IF r.c[2] \in Falsy THEN r ELSE Evaluate(e[3], r.s, answers))
      [] kind = "or" ->
            then(Evaluate(e[2], s, answers),
                 LAMBDA r: IF r.c[2] \in Falsy THEN Evaluate(e[3], r.s, answers) ELSE r)

\* The values of a list of expressions.
EvaluateAll(es, s, answers) ==
    IF es = <<>> THEN Value(s, <<>>)
    ELSE LET first == Evaluate(Head(es), s, answers)
             rest == EvaluateAll(Tail(es), first.s, answers)
         IN  IF first.c[1] # "value" THEN first
             ELSE IF rest.c[1] # "value" THEN rest
             ELSE Value(rest.s, <<first.c[2]>> \o rest.c[2])

\* A statement; labels are the ones it carries.
Execute(st, s, answers, labels) ==
    LET kind == st[1]
        with(e, Op(_)) ==
            LET r == Evaluate(e, s, answers)
            IN  IF r.c[1] = "value" THEN Op(r) ELSE r
        left(r) == IF r.c[1] = "break" /\ r.c[2] \in labels THEN Normal(r.s) ELSE r
        none == <<"val", 0>>
        own == labels \cup {""}
    IN
    CASE kind = "expr" -> with(st[2], LAMBDA r: Normal(r.s))
      [] kind = "let" ->
            with(st[3], LAMBDA r: Normal([r.s EXCEPT !.env[st[2]] = r.c[2]]))
      [] kind = "block" ->
            LET names == LetNames(st[2])
                inner == [s EXCEPT !.env = [x \in DOMAIN @ |->
                            IF x \in names THEN Uninitialized ELSE @[x]]]
                r == ExecuteAll(st[2], inner, answers)
            IN  left([r EXCEPT !.s.env = [x \in DOMAIN @ |->
                        IF x \in names THEN s.env[x] ELSE @[x]]])
      [] kind = "if" ->
            with(st[2], LAMBDA r: left(
                Execute(IF r.c[2] \in Falsy THEN st[4] ELSE st[3], r.s, answers, {})))
      [] kind = "while" -> Iterate(<<st[2], none, st[3]>>, s, answers, own, "test")
      [] kind = "do" -> Iterate(<<st[3], none, st[2]>>, s, answers, own, "body")
      [] kind = "for" ->
            with(st[2], LAMBDA r:
                Iterate(<<st[3], st[4], st[5]>>, r.s, answers, own, "test"))
      [] kind = "switch" ->
            with(st[2], LAMBDA r:
                LET tests == {i \in DOMAIN st[3] : st[3][i][1] # <<>>}
                    hits == {i \in tests : st[3][i][1] = <<"val", r.c[2]>>}
                    from == IF hits # {} THEN Min(hits)
                            ELSE IF DOMAIN st[3] = tests THEN Len(st[3]) + 1
                            ELSE CHOOSE i \in DOMAIN st[3] : i \notin tests
                    clauses == [i \in 1..(Len(st[3]) + 1 - from) |-> st[3][from + i - 1][2]]
                    run == ExecuteAll(FlattenSeq(clauses), r.s, answers)
                IN  IF run.c[1] = "break" /\ run.c[2] \in own
                    THEN Normal(run.s) ELSE run)
      [] kind = "labeled" -> left(Execute(st[3], s, answers, labels \cup {st[2]}))
      [] kind = "break" -> Abrupt(s, "break", st[2])
      [] kind = "continue" -> Abrupt(s, "continue", st[2])
      [] kind = "throw" -> with(st[2], LAMBDA r: Abrupt(r.s, "throw", r.c[2]))
      [] kind = "return" -> with(st[2], LAMBDA r: Abrupt(r.s, "return", r.c[2]))
      [] kind = "try" ->
            LET caught(body) ==
                    IF body.c[1] # "throw" \/ st[4] = <<>> THEN body
                    ELSE [Execute(<<"block", st[4][1]>>,
                                  [body.s EXCEPT !.env[st[3]] = body.c[2]], answers, {})
                            EXCEPT !.s.env[st[3]] = s.env[st[3]]]
                after(r, final) == IF final.c[1] = "normal" THEN [r EXCEPT !.s = final.s]
                                   ELSE final
                ended(r) == IF st[5] = <<>> \/ r.c[1] = "wait" THEN r
                            ELSE after(r, Execute(<<"block", st[5][1]>>, r.s, answers, {}))
            IN  left(ended(caught(Execute(<<"block", st[2]>>, s, answers, {}))))

ExecuteAll(ss, s, answers) ==
    IF ss = <<>> THEN Normal(s)
    ELSE LET first == Execute(Head(ss), s, answers, {})
         IN  IF first.c[1] = "normal" THEN ExecuteAll(Tail(ss), first.s, answers) ELSE first

\* A loop of <<test, update, body>> that goes on at its test, or at its body.
Iterate(parts, s, answers, labels, at) ==
    LET test == Evaluate(parts[1], s, answers)
        again(update) == IF update.c[1] # "value" THEN update
                         ELSE Iterate(parts, update.s, answers, labels, "test")
        after(body) ==
            IF body.c[1] = "break" /\ body.c[2] \in labels THEN Normal(body.s)
            ELSE IF body.c[1] = "normal" \/ (body.c[1] = "continue" /\ body.c[2] \in labels)
            THEN again(Evaluate(parts[2], body.s, answers))
            ELSE body
    IN  IF at = "body" THEN after(Execute(parts[3], s, answers, {}))
        ELSE IF test.c[1] # "value" THEN test
        ELSE IF test.c[2] \in Falsy THEN Normal(test.s)
        ELSE after(Execute(parts[3], test.s, answers, {}))

\* The function with these variables and this body: what it has said and its
\* completion; a body that ends returns undefined.
Meaning(variables, body, answers) ==
    LET ended(r) == [said |-> r.s.said,
                     c |-> IF r.c[1] = "normal" THEN <<"return", -1>> ELSE r.c]
    IN  ended(Execute(<<"block", body>>,
                      [env |-> [x \in variables |-> -1], said |-> <<>>], answers, {}))
=============================================================================
