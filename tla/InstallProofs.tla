--------------------------- MODULE InstallProofs ---------------------------
(***************************************************************************)
(* Theorems about Installer, for any number of wrappers of any versions,   *)
(* each stopped anywhere, and any disk that is as it should be at first.   *)
(***************************************************************************)
EXTENDS Installer, TLAPS

LEMMA BinaryFacts ==
  ASSUME pinned \in [Wrappers -> Versions]
  PROVE  /\ Absent \in Binaries
         /\ \A p \in Wrappers :
              /\ Whole(pinned[p]) \in Binaries /\ Partial(p) \in Binaries
              /\ Whole(pinned[p]) # Absent /\ Partial(p) # Absent
              /\ Whole(pinned[p]) # Partial(p)
              /\ pinned[p] \in Versions /\ pinned[p] # NoVersion
         /\ \A p, q \in Wrappers : Whole(pinned[p]) # Partial(q)
         /\ \A b \in Binaries : b # Absent /\ (\A p \in Wrappers : b # Partial(p)) =>
              \E v \in Versions : b = Whole(v)
BY VersionsAssumption DEF Binaries, Whole, Partial, Absent

LEMMA InstallInitInv ==
  ASSUME TrueAtFirst, Init
  PROVE  InstallInv
<1>1. PICK d \in Setups : bin = d.bin /\ marker = d.marker /\ pinned = d.pinned
  BY DEF Init
<1>2. /\ bin \in Binaries /\ marker \in Versions \cup {NoVersion}
      /\ pinned \in [Wrappers -> Versions]
      /\ \A p \in Wrappers : at[p] = "idle"
      /\ at \in [Wrappers -> Ats]
      /\ rename \in BOOLEAN
  BY <1>1, SetupsAssumption, RenamesAssumption DEF Init, Ats
<1>3. ran \in [Wrappers -> Binaries]
  BY <1>2, BinaryFacts DEF Init
<1>4. MarkerTrue
  BY <1>1 DEF TrueAtFirst, MarkerTrue, OneVersion
<1>5. \A p \in Wrappers : bin # Partial(p)
  BY <1>1 DEF TrueAtFirst
<1>. QED
  BY <1>2, <1>3, <1>4, <1>5
     DEF InstallInv, InstallTypeOK, RenamedRunsPinned, RunsPinned, RenamedRunsWhole,
         WrapperOK, Moved

\* A step that leaves the binary and the marker as they are.
LEMMA ScriptMoves ==
  ASSUME InstallInv, NEW p \in Wrappers, NEW to \in Ats \ {"ran"},
         at' = [at EXCEPT ![p] = to], UNCHANGED <<bin, marker, fixed>>,
         \/ ran' = ran
         \/ ran' = [ran EXCEPT ![p] = Absent],
         WrapperOK(p)'
  PROVE  InstallInv'
<1>1. \A q \in Wrappers : q # p => at'[q] = at[q] /\ ran'[q] = ran[q]
  BY DEF InstallInv, InstallTypeOK
<1>2. at'[p] # "ran" /\ at' \in [Wrappers -> Ats] /\ ran' \in [Wrappers -> Binaries]
  BY BinaryFacts DEF InstallInv, InstallTypeOK
<1>3. InstallTypeOK'
  BY <1>1, <1>2 DEF InstallInv, InstallTypeOK, fixed
<1>4. RenamedRunsWhole' /\ RenamedRunsPinned' /\ MarkerTrue'
  BY <1>1, <1>2
     DEF InstallInv, RenamedRunsWhole, RenamedRunsPinned, RunsPinned, MarkerTrue, OneVersion, fixed
<1>5. \A q \in Wrappers : WrapperOK(q)'
  BY <1>1 DEF InstallInv, WrapperOK, OneVersion, fixed
<1>. QED
  BY <1>3, <1>4, <1>5 DEF InstallInv, fixed

\* A step that leaves the marker and puts the wrapper's version, or where mv
\* copies nothing or a part, in the place of the binary.
LEMMA BinaryMoves ==
  ASSUME InstallInv,
         NEW p \in Wrappers, NEW to \in Ats \ {"ran", "read", "exec"},
         at' = [at EXCEPT ![p] = to], UNCHANGED <<marker, ran, fixed>>,
         \/ bin' = Whole(pinned[p])
         \/ ~ rename /\ bin' \in {Absent, Partial(p)},
         WrapperOK(p)'
  PROVE  InstallInv'
<1>1. /\ \A q \in Wrappers : q # p => at'[q] = at[q]
      /\ OneVersion => \A q \in Wrappers : pinned[q] = pinned[p]
  BY DEF InstallInv, InstallTypeOK, OneVersion
<1>2. at'[p] # "ran" /\ at' \in [Wrappers -> Ats] /\ pinned \in [Wrappers -> Versions]
  BY DEF InstallInv, InstallTypeOK
<1>3. InstallTypeOK' /\ (rename => \A q \in Wrappers : bin' # Partial(q))
  BY <1>1, <1>2, BinaryFacts DEF InstallInv, InstallTypeOK, fixed
<1>4. RenamedRunsWhole' /\ RenamedRunsPinned' /\ MarkerTrue'
  BY <1>1, <1>2, BinaryFacts
     DEF InstallInv, RenamedRunsWhole, RenamedRunsPinned, RunsPinned, MarkerTrue, OneVersion, fixed
<1>5. \A q \in Wrappers : WrapperOK(q)'
  BY <1>1, <1>2, BinaryFacts DEF InstallInv, WrapperOK, OneVersion, fixed
<1>. QED
  BY <1>3, <1>4, <1>5 DEF InstallInv, fixed

LEMMA InstallNextInv ==
  ASSUME InstallInv, [Next]_vars
  PROVE  InstallInv'
<1>0. /\ at \in [Wrappers -> Ats] /\ bin \in Binaries /\ rename \in BOOLEAN
      /\ marker \in Versions \cup {NoVersion} /\ ran \in [Wrappers -> Binaries]
      /\ pinned \in [Wrappers -> Versions]
      /\ \A p \in Wrappers : WrapperOK(p)
      /\ rename => \A p \in Wrappers : bin # Partial(p)
      /\ MarkerTrue /\ RenamedRunsPinned /\ RenamedRunsWhole
  BY DEF InstallInv, InstallTypeOK
<1>. USE DEF Go
<1>1. ASSUME NEW p \in Wrappers, UNCHANGED fixed,
             Start(p) \/ Test(p) \/ Read(p) \/ Fetch(p)
      PROVE  InstallInv'
  <2>1. PICK to \in {"test", "read", "fetch", "move", "exec"} :
          /\ at' = [at EXCEPT ![p] = to]
          /\ to = "read" => bin # Absent
          /\ to = "exec" => at[p] = "read" /\ marker = pinned[p]
    BY <1>1 DEF Start, Test, Read, Fetch
  <2>2. UNCHANGED <<bin, marker, rename, pinned>> /\ ran' = ran
    BY <1>1 DEF Start, Test, Read, Fetch, fixed
  <2>3. to = "exec" /\ rename /\ OneVersion => bin = Whole(pinned[p])
    BY <1>0, <2>1 DEF WrapperOK, MarkerTrue
  <2>4. to = "exec" /\ ~ rename /\ OneVersion =>
          \/ bin \in {Absent, Whole(pinned[p])}
          \/ \E q \in Wrappers : bin = Partial(q)
    BY <1>0, <2>1 DEF MarkerTrue
  <2>5. to = "exec" /\ rename => bin # Absent
    BY <1>0, <2>1 DEF WrapperOK
  <2>6. at'[p] = to /\ OneVersion' = OneVersion
    BY <1>0, <2>1, <2>2 DEF OneVersion
  <2>7. WrapperOK(p)'
    BY <2>1, <2>2, <2>3, <2>4, <2>5, <2>6 DEF WrapperOK, Moved
  <2>8. to \in Ats \ {"ran"}
    BY <2>1 DEF Ats
  <2>. QED
    BY <1>1, <2>1, <2>2, <2>7, <2>8, ScriptMoves
<1>2. ASSUME NEW p \in Wrappers, UNCHANGED fixed, Move(p) \/ Create(p) PROVE InstallInv'
  <2>1. PICK to \in {"truncate", "create", "copy"} :
          /\ at' = [at EXCEPT ![p] = to]
          /\ to # "truncate" => ~ rename /\ bin' \in {Absent, Partial(p)}
          /\ to = "truncate" => rename /\ bin' = Whole(pinned[p])
    BY <1>0, <1>2 DEF Move, Create, WrapperOK
  <2>2. /\ at'[p] = to /\ rename' = rename /\ pinned' = pinned
        /\ Whole(pinned[p]) # Absent
    BY <1>0, <1>2, <2>1, BinaryFacts DEF fixed
  <2>3. WrapperOK(p)'
    BY <2>1, <2>2 DEF WrapperOK, Moved
  <2>4. to \in Ats \ {"ran", "read", "exec"} /\ UNCHANGED <<marker, ran>>
    BY <1>2, <2>1 DEF Ats, Move, Create
  <2>. QED
    BY <1>2, <2>1, <2>3, <2>4, BinaryMoves
<1>3. ASSUME NEW p \in Wrappers, UNCHANGED fixed, Copy(p) PROVE InstallInv'
  <2>1. /\ at[p] = "copy" /\ at' = [at EXCEPT ![p] = "truncate"] /\ ~ rename
        /\ UNCHANGED <<marker, ran>>
        /\ bin' = Whole(pinned[p]) \/ bin' = bin
    BY <1>0, <1>3 DEF Copy, WrapperOK
  <2>2. at'[p] = "truncate" /\ rename' = rename /\ pinned' = pinned /\ OneVersion' = OneVersion
    BY <1>0, <1>3, <2>1 DEF fixed, OneVersion
  <2>3. WrapperOK(p)'
    BY <1>0, <2>1, <2>2 DEF WrapperOK, Moved
  <2>4. "truncate" \in Ats \ {"ran", "read", "exec"}
    BY DEF Ats
  <2>. QED
    BY <1>3, <2>1, <2>3, <2>4, BinaryMoves, ScriptMoves
<1>4. ASSUME NEW p \in Wrappers, UNCHANGED fixed, Truncate(p) \/ Write(p)
      PROVE  InstallInv'
  <2>1. PICK to \in {"write", "exec"} :
          at[p] \in {"truncate", "write"} /\ at' = [at EXCEPT ![p] = to]
    BY <1>4 DEF Truncate, Write
  <2>2. UNCHANGED <<bin, ran, rename, pinned>> /\ marker' \in {NoVersion, pinned[p]}
    BY <1>4 DEF Truncate, Write, fixed
  <2>3. /\ \A q \in Wrappers : q # p => at'[q] = at[q]
        /\ OneVersion => \A q \in Wrappers : pinned[q] = pinned[p]
        /\ OneVersion' = OneVersion
    BY <1>0, <2>1, <2>2 DEF OneVersion
  <2>4. /\ rename => bin # Absent
        /\ OneVersion =>
             /\ rename => bin = Whole(pinned[p])
             /\ ~ rename => \/ bin \in {Absent, Whole(pinned[p])}
                            \/ \E q \in Wrappers : bin = Partial(q)
    BY <1>0, <2>1 DEF WrapperOK, Moved
  <2>5. at' \in [Wrappers -> Ats] /\ at'[p] = to /\ to # "ran" /\ to # "read"
    BY <1>0, <2>1 DEF Ats
  <2>6. InstallTypeOK' /\ RenamedRunsPinned' /\ RenamedRunsWhole'
    BY <1>0, <2>2, <2>3, <2>5, BinaryFacts
       DEF InstallInv, InstallTypeOK, RenamedRunsPinned, RenamedRunsWhole, RunsPinned
  <2>7. MarkerTrue'
    BY <1>0, <2>2, <2>3, <2>4, BinaryFacts DEF MarkerTrue
  <2>8. \A q \in Wrappers : WrapperOK(q)'
    BY <1>0, <2>1, <2>2, <2>3, <2>4, <2>5 DEF WrapperOK, Moved
  <2>. QED
    BY <1>0, <2>2, <2>6, <2>7, <2>8 DEF InstallInv
<1>5. ASSUME NEW p \in Wrappers, UNCHANGED fixed, Exec(p) PROVE InstallInv'
  <2>1. /\ at[p] = "exec" /\ at' = [at EXCEPT ![p] = "ran"]
        /\ ran' = [ran EXCEPT ![p] = bin] /\ UNCHANGED <<bin, marker, rename, pinned>>
    BY <1>5 DEF Exec, fixed
  <2>2. /\ rename /\ OneVersion => bin = Whole(pinned[p])
        /\ rename => bin # Absent
    BY <1>0, <2>1 DEF WrapperOK, Moved
  <2>3. rename => \E v \in Versions : bin = Whole(v)
    BY <1>0, <2>2, BinaryFacts
  <2>4. /\ at' \in [Wrappers -> Ats] /\ ran' \in [Wrappers -> Binaries]
        /\ at'[p] = "ran" /\ ran'[p] = bin
        /\ \A q \in Wrappers : q # p => at'[q] = at[q] /\ ran'[q] = ran[q]
        /\ OneVersion' = OneVersion
    BY <1>0, <2>1 DEF Ats, OneVersion
  <2>5. InstallTypeOK'
    BY <1>0, <2>1, <2>4 DEF InstallTypeOK
  <2>6. RenamedRunsPinned' /\ RenamedRunsWhole' /\ MarkerTrue'
    BY <1>0, <2>1, <2>2, <2>3, <2>4
       DEF RenamedRunsPinned, RenamedRunsWhole, RunsPinned, MarkerTrue
  <2>7. \A q \in Wrappers : WrapperOK(q)'
    BY <1>0, <2>1, <2>4 DEF WrapperOK, Moved
  <2>. QED
    BY <1>0, <2>1, <2>5, <2>6, <2>7 DEF InstallInv
<1>6. ASSUME NEW p \in Wrappers, UNCHANGED fixed, Stop(p) PROVE InstallInv'
  <2>1. /\ at' = [at EXCEPT ![p] = "idle"] /\ ran' = [ran EXCEPT ![p] = Absent]
        /\ UNCHANGED <<bin, marker>>
    BY <1>6 DEF Stop
  <2>2. WrapperOK(p)'
    BY <1>0, <2>1 DEF WrapperOK, Moved
  <2>. QED
    BY <1>6, <2>1, <2>2, ScriptMoves DEF Ats
<1>7. CASE UNCHANGED vars
  BY <1>0, <1>7 DEF vars, fixed, InstallInv, InstallTypeOK, RenamedRunsPinned, RunsPinned,
                    RenamedRunsWhole, MarkerTrue, WrapperOK, OneVersion
<1>. QED
  BY <1>1, <1>2, <1>3, <1>4, <1>5, <1>6, <1>7 DEF Next

LEMMA InstallInvHolds == TrueAtFirst => (Spec => []InstallInv)
<1>. SUFFICES ASSUME TrueAtFirst PROVE Spec => []InstallInv
  OBVIOUS
<1>1. Init => InstallInv
  BY InstallInitInv
<1>2. InstallInv /\ [Next]_vars => InstallInv'
  BY InstallNextInv
<1>. QED
  BY <1>1, <1>2, PTL DEF Spec

(***************************************************************************)
(* The theorems                                                            *)
(***************************************************************************)
\* Where mv renames, whoever gets through install-binary.sh runs a complete
\* binary, however many installers, of however many versions, are at work and
\* wherever they are stopped.
THEOREM WrappersRunWhole == TrueAtFirst => (Spec => []RenamedRunsWhole)
<1>1. InstallInv => RenamedRunsWhole
  BY DEF InstallInv
<1>. QED
  BY <1>1, InstallInvHolds, PTL

\* With plugins of one version, and where mv renames, it is the binary of that
\* version.
THEOREM WrappersRunPinned == TrueAtFirst => (Spec => []RenamedRunsPinned)
<1>1. InstallInv => RenamedRunsPinned
  BY DEF InstallInv
<1>. QED
  BY <1>1, InstallInvHolds, PTL

\* With plugins of one version the version marker never names an older binary,
\* whether mv renames or copies.
THEOREM MarkersTrue == TrueAtFirst => (Spec => []MarkerTrue)
<1>1. InstallInv => MarkerTrue
  BY DEF InstallInv
<1>. QED
  BY <1>1, InstallInvHolds, PTL

=============================================================================
