------------------------------ MODULE StatePath ------------------------------
(***************************************************************************)
(* internal/statepath: which directory holds state.json, as a function of  *)
(* the environment and the working directory of a process.                 *)
(*                                                                         *)
(* A path is a sequence of names, absolute or not; it is taken to be clean *)
(* (filepath.Join would drop dots and double slashes).                     *)
(***************************************************************************)
EXTENDS Sequences

Path(absolute, names) == [absolute |-> absolute, names |-> names]

\* The empty string: a variable that is empty or not set.
EmptyPath == Path(FALSE, <<>>)

Join(path, name) == [path EXCEPT !.names = Append(@, name)]

\* $XDG_STATE_HOME, $HOME, and the names of the working directory.
Environment(xdg, home, cwd) == [xdg |-> xdg, home |-> home, cwd |-> cwd]

IsPath(p) == p = Path(p.absolute, p.names) /\ p.absolute \in BOOLEAN

IsEnvironment(env) ==
  /\ env = Environment(env.xdg, env.home, env.cwd)
  /\ IsPath(env.xdg) /\ IsPath(env.home)

HomeUnset(env) == env.xdg = EmptyPath /\ env.home = EmptyPath

ParentEvenEmpty(env) == Join(env.xdg, "mcp-chain")   \* mutant: LookupEnv, or no test

Parent(env) ==
  IF env.xdg # EmptyPath THEN Join(env.xdg, "mcp-chain") ELSE Join(env.home, ".mcp-chain")

\* Where the operating system finds it.
StateDir(env) ==
  IF Parent(env).absolute THEN Parent(env).names ELSE env.cwd \o Parent(env).names

(***************************************************************************)
(* For properties: what the user has set, in the order that the comment of *)
(* the package gives                                                       *)
(***************************************************************************)
Setting(env) ==
  IF env.xdg # EmptyPath THEN [variable |-> "XDG_STATE_HOME", value |-> env.xdg]
                         ELSE [variable |-> "HOME", value |-> env.home]

===============================================================================
