----------------------------- MODULE MCCompiler -----------------------------
\* The functions CompiledFunction is checked with: every way to fill in a few
\* skeletons, among them each kind of exit from each clause of a try statement.
EXTENDS CompiledFunction

val(n) == <<"val", n>>
x == <<"var", "x">>
y == <<"var", "y">>
e == <<"var", "e">>
say(es) == <<"call", es>>
do(expr) == <<"expr", expr>>
set(name, expr) == do(<<"assign", name, expr>>)
let(name, expr) == <<"let", name, expr>>
block(ss) == <<"block", ss>>
if(test, s) == <<"if", test, s, block(<<>>)>>
exits == <<<<"break", "">>, <<"continue", "">>, <<"return", x>>, <<"throw", val(5)>>>>

function(ss) ==
    [variables |-> {"x", "y", "e"},
     body |-> <<let("x", val(1)), let("y", val(2))>> \o ss
              \o <<do(say(<<val(9), x, y>>))>>]

InLoop(s) == <<"while", say(<<val(8), x>>), block(<<s, set("x", val(7))>>)>>

-----------------------------------------------------------------------------
\* One try statement in a loop: bodies, catch clauses, finally clauses.
Bodies ==
    [i \in DOMAIN exits |-> <<set("x", val(3)), exits[i]>>]
    \o <<<<do(say(<<val(1), x>>))>>,
         <<if(say(<<val(1), x>>), set("x", val(3))), <<"throw", x>>>>,
         <<set("x", val(3))>>>>
Catches ==
    <<<<>>, <<<<>>>>, <<<<set("y", e), set("x", val(4))>>>>,
      <<<<do(say(<<val(2), x, e>>))>>>>>>
    \o [i \in DOMAIN exits |-> <<<<set("x", val(4)), exits[i]>>>>]
Finallies ==
    <<<<>>, <<<<set("y", x)>>>>, <<<<do(say(<<val(3), x>>)), set("x", val(6))>>>>>>
    \o [i \in DOMAIN exits |-> <<<<set("x", val(6)), exits[i]>>>>]

try(body, c, f) == <<"try", body, "e", Catches[c], Finallies[f]>>
Clauses(cs, fs) == {<<c, f>> \in cs \X fs : Catches[c] # <<>> \/ Finallies[f] # <<>>}

OneTry == {"one"} \X (DOMAIN Bodies) \X Clauses(DOMAIN Catches, DOMAIN Finallies)

\* A try statement in a clause of another one, in a loop.
TwoTries ==
    {"try", "catch", "finally"} \X (1..5) \X Clauses({1, 3}, {1, 2, 4})
                                \X Clauses({1, 3}, {1, 3})
Nested(n) ==
    LET inner == <<try(Bodies[n[2]], n[3][1], n[3][2]), set("y", x)>>
        outer == try(<<set("x", val(0)), <<"throw", x>>>>, n[4][1], n[4][2])
    IN  CASE n[1] = "try" -> try(inner, n[4][1], n[4][2])
          [] n[1] = "catch" -> [outer EXCEPT ![4] = <<inner>>]
          [] n[1] = "finally" -> [outer EXCEPT ![5] = <<inner>>]

\* Everything else there is, alone or in a try statement.
Outer(s) ==
    <<"labeled", "outer", <<"while", say(<<val(8), y>>),
        block(<<<<"while", say(<<val(7), x>>), block(<<s, set("y", val(3))>>)>>,
                set("x", val(4))>>)>>>>
Others ==
    <<<<"for", <<"assign", "x", val(0)>>, say(<<val(1), x>>), <<"inc", "x">>,
        if(say(<<val(2), x, y>>), block(<<set("y", x), <<"continue", "">>>>))>>,
      <<"do", block(<<set("y", x), set("x", val(3))>>), say(<<val(1), x, y>>)>>,
      InLoop(<<"switch", say(<<val(1), x>>),
               <<<<val(0), <<set("x", val(3))>>>>,
                 <<<<>>, <<set("y", x), <<"continue", "">>>>>>,
                 <<val(1), <<set("x", val(4)), <<"break", "">>>>>>>>>>),
      Outer(<<"continue", "outer">>), Outer(<<"break", "outer">>),
      Outer(try(<<<<"continue", "outer">>>>, 1, 2)),
      Outer(try(<<<<"break", "outer">>>>, 3, 3)),
      <<"labeled", "out", block(<<if(say(<<val(1), x>>), <<"break", "out">>),
                                  set("x", val(3))>>)>>,
      set("y", <<"cond", say(<<val(1), x>>), <<"assign", "x", val(3)>>, x>>),
      do(<<"and", say(<<val(1), x>>), <<"assign", "x", val(3)>>>>),
      set("y", <<"or", say(<<val(1), x>>), <<"inc", "x">>>>),
      block(<<let("x", val(3)), do(say(<<val(1), x>>)), set("x", y), set("y", x)>>),
      block(<<if(say(<<val(1), y>>), set("x", val(3))), let("x", val(4)), set("y", x)>>)>>
OtherIn == {"other"} \X (DOMAIN Others) \X {<<1, 1>>, <<2, 1>>, <<3, 3>>, <<1, 2>>}

AllFunctions ==
    [n \in OneTry |-> function(<<InLoop(try(Bodies[n[2]], n[3][1], n[3][2]))>>)]
    @@ [n \in TwoTries |-> function(<<InLoop(block(<<Nested(n)>>))>>)]
    @@ [n \in OtherIn |->
            LET other == <<block(<<Others[n[2]]>>)>>
                end == IF n[3][1] = 1 THEN <<>> ELSE <<<<"throw", x>>>>
            IN  function(IF n[3] = <<1, 1>> THEN other
                         ELSE <<try(other \o end, n[3][1], n[3][2])>>)]

MCAnswers == {0, 1, Thrown}
=============================================================================
