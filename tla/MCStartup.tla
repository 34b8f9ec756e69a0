------------------------------ MODULE MCStartup ------------------------------
(***************************************************************************)
(* Startup on a small instance: two processes at a time, in directories    *)
(* and environments that agree on the store or do not; binaries built with *)
(* a list of two words or with a text that is not one; two registrations.  *)
(***************************************************************************)
EXTENDS Startup, TLC

CONSTANTS p1, p2, A, w1, w2, w3

TwoProcs  == {p1, p2}
Either    == Permutations(TwoProcs)
AllTokens == {A}
AllNames  == {w1, w2}
NoNames   == {}

\* The two words, the first two hexadecimal ids, in the order of strings.
ByName == <<w2>> \o [n \in 1 .. 2 |-> Chain!HexId(n)] \o <<w1>>

AllIds == {ByName[i] : i \in DOMAIN ByName}

Earlier(a, b) == \E i, j \in DOMAIN ByName : ByName[i] = a /\ ByName[j] = b /\ i < j

\* hex-abcd, which has letters only.
hex == [above |-> 0, four |-> 43981]

Line(tab, spelling, word) == [tab |-> tab, spelling |-> spelling, word |-> word]
Good(word) == Line(TRUE, "good", word)

\* A good text, and one for each thing that is refused.
AllRaws ==
  {<<Good(w1), Good(w2)>>, <<Good(w1), Good(w1)>>, <<Good(w1)>>,
   <<Good(w1), Good(w2), Good(w3)>>, <<Good(w1), Line(FALSE, "good", w2)>>}
  \cup {<<Good(w1), Line(TRUE, spelling, hex)>> : spelling \in {"bad", "hex"}}
  \cup {<<Good(w1), Line(TRUE, "empty", w2)>>}

Do(program, op, tok, id, opts) == Command(program, Call(op, tok, id, opts), {})

\* A command of every kind, also with what main answers itself.
AllCommands ==
  {Do("serve", "register", A, NoId, {}),
   Do("seed", "register", A, NoId, {}),
   Do("status", "get", NoToken, w1, {}),
   Do("list", "list", NoToken, NoId, {}),
   Do("resolve", "resolve", NoToken, w1, {"force"}),
   Do("purge", "purge", NoToken, w1, {}),
   Do("purge", "purge", NoToken, NoId, {}),
   NoCommand,
   Command("status", Call("get", NoToken, w1, {}), {"--version"}),
   Command("none", Call("list", NoToken, NoId, {}), {"--help"})}

Root(name) == Path(TRUE, <<name>>)

\* The same store from two directories, by $HOME; another by an absolute
\* variable, and by a relative one from the root; none.
AllEnvironments ==
  {Environment(EmptyPath, Root("h"), <<"d">>), Environment(EmptyPath, Root("h"), <<"e">>),
   Environment(Root("x"), Root("h"), <<"d">>), Environment(Path(FALSE, <<"x">>), EmptyPath, <<>>),
   Environment(EmptyPath, EmptyPath, <<"d">>)}

\* A condition of five letters, where four fit.
AllConditions == {<<"l", "o", "n", "g", "s">>}

\* Numerals at the edges: nothing, a zero in front, octal or not, the maximum, and
\* numbers that wrap around or cannot be read (of 21 bits, not 64).
Text(digits, unit) == [digits |-> digits, unit |-> unit]

AllTexts ==
  {Text(<<6, 0, 4, 8, 0, n>>, "s") : n \in {0, 1}}
  \cup {Text(<<1, 6, n>>, "h") : n \in {8, 9}}
  \cup {Text(<<9>>, "m"), Text(<<0>>, "m"), Text(<<0, 8>>, "m"), Text(<<0, 1, 0>>, "m"),
        Text(<<3, 4, 9, 5, 3>>, "m"), Text(<<1, 0, 4, 8, 5, 7, 6>>, "s")}

==============================================================================
