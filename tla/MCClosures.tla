------------------------------- MODULE MCClosures -------------------------------
(***************************************************************************)
(* The programs TLC runs: each looks at one thing names may do.            *)
(***************************************************************************)
EXTENDS Closures

Plain(up, kind, body) == [up |-> up, kind |-> kind, params |-> <<>>, self |-> Nameless, body |-> body]
Script(body) == Plain(0, "script", body)
Taking(x, scope) == [scope EXCEPT !.params = <<x>>]
Named(x, scope) == [scope EXCEPT !.self = x]

Program(scopes) ==
    [up     |-> [s \in DOMAIN scopes |-> scopes[s].up],
     kind   |-> [s \in DOMAIN scopes |-> scopes[s].kind],
     params |-> [s \in DOMAIN scopes |-> scopes[s].params],
     self   |-> [s \in DOMAIN scopes |-> scopes[s].self],
     body   |-> [s \in DOMAIN scopes |-> scopes[s].body]]

read(x) == <<"read", x>>
write(x) == <<"write", x>>
var(x) == <<"var", x>>
let(x) == <<"let", x>>
enter(s) == <<"enter", s>>
make(s) == <<"make", s>>
callname(x) == <<"callname", x>>
return(v) == <<"return", v>>
call == <<"call", Nameless>>
new == <<"new", Nameless>>
construct == <<"construct", Nameless>>
super == <<"super", Nameless>>

\* Two closures over one parameter, in several activations.
Counter == Program(<<
    Script(<<make(2), call, call, call>>),
    Taking("n", Plain(1, "expression", <<make(3), make(4), write("n"), call, read("n")>>)),
    Plain(2, "expression", <<write("n")>>),
    Plain(2, "arrow", <<read("n")>>)>>)

\* Declarations are called before and after the let they use, and call another.
Mutual == Program(<<
    Script(<<make(2), call>>),
    Plain(1, "expression", <<var("v"), callname("a"), let("x"), callname("a"), read("x"), callname("b")>>),
    Named("a", Plain(2, "declaration", <<read("x"), callname("b"), read("v"), callname("v")>>)),
    Named("b", Plain(2, "declaration", <<write("x"), write("v"), return("primitive")>>))>>)

\* A binding is captured through a function that does not mention it.
Deep == Program(<<
    Script(<<make(2), call, call, call>>),
    Taking("n", Plain(1, "expression", <<make(3), call, call, read("n")>>)),
    Taking("m", Plain(2, "expression", <<let("k"), make(4), write("m")>>)),
    Plain(3, "arrow", <<read("n"), read("m"), write("k"), write("n")>>)>>)

\* Every iteration has its binding, which the closures copy.
Iterations == Program(<<
    Script(<<make(2), call, call>>),
    Plain(1, "expression", <<enter(3), call>>),
    Plain(2, "loop", <<let("i"), make(4), call>>),
    Plain(3, "arrow", <<read("i")>>)>>)

\* A block hides a captured name.
Shadow == Program(<<
    Script(<<make(2), call, call>>),
    Plain(1, "expression", <<let("x"), make(4), enter(3), read("x")>>),
    Plain(2, "block", <<let("x"), read("x"), call>>),
    Plain(2, "arrow", <<read("x"), write("x")>>)>>)

\* An arrow has the arguments of the function around it, a function its own.
Arguing == Program(<<
    Script(<<make(2), call, call, call>>),
    Plain(1, "expression", <<make(3), make(4)>>),
    Plain(2, "arrow", <<read("arguments")>>),
    Plain(2, "expression", <<read("arguments")>>)>>)

\* The names of the script, used before and after their declarations.
Global == Program(<<
    Script(<<make(2), call, callname("d"), let("g"), var("v"), call, write("g"), callname("d"), enter(4)>>),
    Plain(1, "expression", <<read("v"), write("v"), write("g")>>),
    Named("d", Plain(1, "declaration", <<write("v"), read("g")>>)),
    Plain(1, "block", <<let("b"), write("b"), read("g"), read("b"), read("nothing")>>)>>)

\* A callee has no use for the cells of its caller.
Stranger == Program(<<
    Script(<<make(2), make(3), call, let("n"), call>>),
    Plain(1, "expression", <<read("n"), write("n")>>),
    Taking("n", Plain(1, "expression", <<make(4), call, read("n")>>)),
    Plain(3, "arrow", <<write("n"), read("n")>>)>>)

\* A callee that is left by an exception leaves none of its cells behind.
Leftover == Program(<<
    Script(<<make(2), call>>),
    Taking("n", Plain(1, "expression", <<make(3), make(4), call, read("n"), call, write("n")>>)),
    Taking("n", Plain(2, "expression", <<make(5), read("nothing")>>)),
    Plain(2, "arrow", <<write("n")>>),
    Plain(3, "arrow", <<read("n")>>)>>)

\* A function calls itself, and is called by a function it makes.
Recursive == Program(<<
    Script(<<make(2), call>>),
    Named("f", Taking("n", Plain(1, "expression", <<read("n"), make(3), callname("f"), read("n")>>))),
    Plain(2, "arrow", <<callname("f")>>)>>)

\* A class and its parent; an arrow keeps this and new.target.
Inherits == Program(<<
    Script(<<make(2), make(3), new, call, new, call>>),
    Plain(1, "base", <<read("this"), read("target")>>),
    Plain(1, "derived", <<read("target"), super, read("this"), make(4)>>),
    Plain(3, "arrow", <<read("this"), read("target")>>)>>)

\* Constructors that return something of their own.
Answers == Program(<<
    Script(<<make(2), make(3), make(4), new, new>>),
    Plain(1, "base", <<return("object")>>),
    Plain(1, "base", <<return("primitive")>>),
    Plain(1, "derived", <<super, read("this"), return("primitive")>>)>>)

\* this before super(), a constructor without super(), a parent that fails.
NoThis == Program(<<
    Script(<<make(2), make(3), new, new, let("g"), new, new>>),
    Plain(1, "base", <<read("g"), read("this")>>),
    Plain(1, "derived", <<super, read("g")>>)>>)
Early == Program(<<
    Script(<<make(2), new, new>>),
    Plain(1, "derived", <<read("this"), super>>)>>)
Forgotten == Program(<<
    Script(<<make(2), make(3), new, new>>),
    Plain(1, "derived", <<read("target")>>),
    Plain(1, "base", <<read("this")>>)>>)

\* A constructor captures, and is constructed by way of invoke_construct.
Capturing == Program(<<
    Script(<<make(2), call, construct, call, construct>>),
    Taking("n", Plain(1, "expression", <<make(3), make(4), construct, read("n")>>)),
    Taking("m", Plain(2, "base", <<read("n"), write("n"), read("this"), return("object")>>)),
    Plain(2, "arrow", <<read("n"), write("n")>>)>>)

TheSources ==
    <<Counter, Mutual, Deep, Iterations, Shadow, Arguing, Global,
      Stranger, Leftover, Recursive, Inherits, Answers, NoThis, Early, Forgotten, Capturing>>
=============================================================================
