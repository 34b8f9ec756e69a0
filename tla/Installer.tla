----------------------------- MODULE Installer -----------------------------
(***************************************************************************)
(* plugin/scripts/mcp-chain-exec.sh and install-binary.sh: every start of  *)
(* the MCP server, every slash command and every poll of a monitor first   *)
(* makes sure that the binary of the plugin's version is installed, then   *)
(* runs it.  Any number of such wrappers share the binary and the version  *)
(* marker, and nothing locks them.                                         *)
(*                                                                         *)
(* The directory outlives an upgrade of the plugin, so that wrappers of an *)
(* older and a newer one may meet in it.  The choice of directories, of    *)
(* the archive and of the download tool is left out; each wrapper unpacks  *)
(* in a directory of its own.                                              *)
(***************************************************************************)
EXTENDS Naturals

CONSTANTS
  Wrappers,   \* processes of mcp-chain-exec.sh
  Versions,
  NoVersion,  \* of a binary that is not there, and a marker that is not, or is empty
  Nobody,
  Renames,    \* whether $TMPDIR and $BIN_DIR may be in one filesystem, and in two
  Setups      \* binary, marker and the versions of the wrappers' plugins at first

Whole(v) == [ver |-> v, writer |-> Nobody]

Absent == Whole(NoVersion)

\* What is there of the binary while p copies it, and stays if p is stopped.
Partial(p) == [ver |-> NoVersion, writer |-> p]

Binaries == {Absent} \cup {Whole(v) : v \in Versions} \cup {Partial(p) : p \in Wrappers}

ASSUME VersionsAssumption ==
  /\ NoVersion \notin Versions
  /\ Nobody \notin Wrappers

ASSUME SetupsAssumption ==
  \A d \in Setups : /\ d.bin \in Binaries /\ d.marker \in Versions \cup {NoVersion}
                    /\ d.pinned \in [Wrappers -> Versions]

ASSUME RenamesAssumption == Renames \subseteq BOOLEAN

VARIABLES
  at,      \* where a wrapper is
  bin,     \* $BIN_PATH
  marker,  \* $VERSION_FILE
  ran,     \* the binary a wrapper has turned into
  rename,  \* whether mv renames or copies
  pinned   \* $VERSION, the version in the plugin.json of a wrapper

fixed == <<rename, pinned>>

vars == <<at, bin, marker, ran, fixed>>

Init ==
  /\ \E d \in Setups : bin = d.bin /\ marker = d.marker /\ pinned = d.pinned
  /\ at = [p \in Wrappers |-> "idle"]
  /\ ran = [p \in Wrappers |-> Absent]
  /\ rename \in Renames

Go(p, from, to) == at[p] = from /\ at' = [at EXCEPT ![p] = to]

Start(p) ==
  /\ Go(p, "idle", "test")
  /\ UNCHANGED <<bin, marker, ran>>

TestMarkerOnly(p) ==   \* mutant: the marker alone decides
  /\ Go(p, "test", "read")
  /\ UNCHANGED <<bin, marker, ran>>

\* [ -x "$BIN_PATH" ]; mv keeps the mode, so what is there can be executed.
Test(p) ==
  /\ \/ bin # Absent /\ Go(p, "test", "read")
     \/ bin = Absent /\ Go(p, "test", "fetch")
  /\ UNCHANGED <<bin, marker, ran>>

ReadAny(p) ==   \* mutant: any marker will do
  /\ \/ marker # NoVersion /\ Go(p, "read", "exec")
     \/ marker = NoVersion /\ Go(p, "read", "fetch")
  /\ UNCHANGED <<bin, marker, ran>>

\* The fast path.
Read(p) ==
  /\ \/ marker = pinned[p] /\ Go(p, "read", "exec")
     \/ marker # pinned[p] /\ Go(p, "read", "fetch")
  /\ UNCHANGED <<bin, marker, ran>>

\* Download, unpack and look for the binary, all in $TMPDIR.
Fetch(p) ==
  /\ Go(p, "fetch", "move")
  /\ UNCHANGED <<bin, marker, ran>>

MoveLater(p) ==   \* mutant: the marker is written first
  /\ Go(p, "move", "truncate")
  /\ UNCHANGED <<bin, marker, ran>>

\* mv within a filesystem replaces the binary at once; to another one it
\* removes the binary, makes a new file and copies.
Move(p) ==
  /\ \/ rename /\ Go(p, "move", "truncate") /\ bin' = Whole(pinned[p])
     \/ ~ rename /\ Go(p, "move", "create") /\ bin' = Absent
  /\ UNCHANGED <<marker, ran>>

\* If another wrapper has made one meanwhile, mv fails.
Create(p) ==
  /\ bin = Absent
  /\ Go(p, "create", "copy")
  /\ bin' = Partial(p)
  /\ UNCHANGED <<marker, ran>>

\* The copy is complete, if only it is still there.
Copy(p) ==
  /\ Go(p, "copy", "truncate")
  /\ bin' = IF bin = Partial(p) THEN Whole(pinned[p]) ELSE bin
  /\ UNCHANGED <<marker, ran>>

\* The shell empties the marker, then printf writes it.
Truncate(p) ==
  /\ Go(p, "truncate", "write")
  /\ marker' = NoVersion
  /\ UNCHANGED <<bin, ran>>

Write(p) ==
  /\ Go(p, "write", "exec")
  /\ marker' = pinned[p]
  /\ UNCHANGED <<bin, ran>>

Exec(p) ==
  /\ Go(p, "exec", "ran")
  /\ ran' = [ran EXCEPT ![p] = bin]
  /\ UNCHANGED <<bin, marker>>

\* A command of the scripts fails, the process is killed, or the binary is done.
Stop(p) ==
  /\ at[p] # "idle"
  /\ at' = [at EXCEPT ![p] = "idle"]
  /\ ran' = [ran EXCEPT ![p] = Absent]
  /\ UNCHANGED <<bin, marker>>

Next ==
  /\ \E p \in Wrappers :
       \/ Start(p) \/ Test(p) \/ Read(p) \/ Fetch(p) \/ Move(p) \/ Create(p) \/ Copy(p)
       \/ Truncate(p) \/ Write(p) \/ Exec(p) \/ Stop(p)
  /\ UNCHANGED fixed

Spec == Init /\ [][Next]_vars

(***************************************************************************)
(* Properties                                                              *)
(***************************************************************************)
Ats == {"idle", "test", "read", "fetch", "move", "create", "copy", "truncate", "write",
        "exec", "ran"}

InstallTypeOK ==
  /\ at \in [Wrappers -> Ats]
  /\ bin \in Binaries
  /\ marker \in Versions \cup {NoVersion}
  /\ ran \in [Wrappers -> Binaries]
  /\ rename \in BOOLEAN
  /\ pinned \in [Wrappers -> Versions]

\* Where mv renames, a wrapper never runs a binary that is not there or not
\* complete, even among wrappers of several versions: between the fast path, or
\* its own installation, and its exec none is taken away (install-binary.sh
\* moves the new one over the old one).
RenamedRunsWhole ==
  \A p \in Wrappers :
    rename /\ at[p] = "ran" => \E v \in Versions : ran[p] = Whole(v)

\* All plugins are of one version.
OneVersion == \A p, q \in Wrappers : pinned[p] = pinned[q]

\* A wrapper runs a complete binary of the version its plugin pins
\* (install-binary.sh: "Ensure ${CLAUDE_PLUGIN_DATA}/bin/mcp-chain is present
\* and matches the version pinned in plugin.json").
RunsPinned ==
  \A p \in Wrappers : at[p] = "ran" => ran[p] = Whole(pinned[p])

\* So it does where mv renames and all plugins are of one version, with any
\* number of installers at once, each stopped anywhere.
RenamedRunsPinned == rename /\ OneVersion => RunsPinned

\* With plugins of one version the marker never vouches for another version than
\* the one that is there (install-binary.sh: the marker is written after the
\* binary is in place).  Where mv copies, the binary may be missing or in part.
MarkerTrue ==
  \A p \in Wrappers :
    OneVersion /\ marker = pinned[p] /\ bin # Absent =>
      bin = Whole(pinned[p]) \/ (~ rename /\ \E q \in Wrappers : bin = Partial(q))

\* When no wrapper is at work, the next one repairs what is not as it should be
\* (mcp-chain-exec.sh: "so the plugin is self-healing"): the fast path is not
\* open to a binary that is there in part.
SelfHealing ==
  \A p \in Wrappers :
    (\A q \in Wrappers : at[q] = "idle") /\ marker = pinned[p] /\ bin # Absent =>
      bin = Whole(pinned[p])

\* When the properties hold: where all plugins are of one version, the marker was
\* true at first, and where mv renames there is no part of a binary.
TrueAtFirst ==
  \A d \in Setups, p \in Wrappers :
    /\ d.bin # Partial(p)
    /\ (\A q \in Wrappers : d.pinned[p] = d.pinned[q])
         /\ d.marker = d.pinned[p] /\ d.bin # Absent => d.bin = Whole(d.pinned[p])

\* The inductive invariant that module InstallProofs proves: once a wrapper has
\* removed the binary it found, no older one is there again.
Moved == {"create", "copy", "truncate", "write", "exec"}

WrapperOK(p) ==
  /\ OneVersion /\ at[p] \in Moved =>
       IF rename THEN bin = Whole(pinned[p])
       ELSE \/ bin \in {Absent, Whole(pinned[p])}
            \/ \E q \in Wrappers : bin = Partial(q)
  /\ at[p] \in {"create", "copy"} => ~ rename
  /\ rename /\ at[p] \in {"read", "truncate", "write", "exec"} => bin # Absent

InstallInv ==
  /\ InstallTypeOK
  /\ rename => \A p \in Wrappers : bin # Partial(p)
  /\ RenamedRunsWhole
  /\ RenamedRunsPinned
  /\ MarkerTrue
  /\ \A p \in Wrappers : WrapperOK(p)

=============================================================================
