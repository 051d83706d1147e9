----------------------------- MODULE SynthGate -----------------------------
(***************************************************************************)
(* scripts/gate_zd_pair_synth.sh: two syntheses of the unit are compared   *)
(* with each other and with the pinned receipt, then the netlist is        *)
(* simulated twice.  The validators are tested on altered inputs in        *)
(* between.  An artifact is the one the receipt pins or some other;        *)
(* equality of SHA-256 is equality.                                        *)
(***************************************************************************)
EXTENDS GateScript

VARIABLES
  edited,    \* the committed file that is not what it was when pinned
  table,     \* the sign table the nested contract gate prints the hash of
  netlist,   \* $TMP/{a,b}-{stat.json,netlist.json,netlist.v}
  raw,       \* logs of the primary simulation and its replay
  refused    \* MUTATION_COUNT, POSTSYNTH_MUTATIONS

files == <<edited, table, netlist, raw, refused>>

Basis == INSTANCE BasisTable

Kinds     == {"stat", "json", "verilog"}
Artifacts == [Kinds -> {"pinned", "other"}]

\* A simulation's log: the expected receipt, alone or among other lines, or
\* none; and its $finish lines, which name a path and a time.
Texts  == {"receipt", "receipt and more", "no receipt"}
Finish == {<<>>, <<"here">>, <<"elsewhere">>, <<"here", "here">>}

Init ==
  /\ Start
  /\ edited \in {"nothing", "rom", "synth manifest", "postsynth manifest"}
  /\ Basis!Init
  /\ netlist = [run \in {"a", "b"} |-> [k \in Kinds |-> "none"]]
  /\ raw = [run \in {"primary", "replay"} |-> <<"none", <<>>>>]
  /\ refused = [synth |-> 0, postsynth |-> 0]

-----------------------------------------------------------------------------
(* Nested gates and the ROM check. *)

\* EXPECTED_TABLE_SHA256, and the bytes of the ROM in the tree.
PinnedTable == [k \in 1 .. 256 |-> Basis!Cell(Basis!Row(k), Basis!Column(k))]
Rom         == [k \in 1 .. 256 |-> Basis!RomByte(Basis!Row(k), Basis!Column(k))]
\* Bit 12 of a row of the literal: 256'hcd4c... becomes 256'hdd4c...
Flip(rom)    == [rom EXCEPT ![256 - 3] = IF @ = 1 THEN 255 ELSE 1]
RomInTree    == IF edited = "rom" THEN Flip(Rom) ELSE Rom
RomPasses(rom) == rom = PinnedTable

WriteTable ==
  /\ step = "contract" /\ Basis!WriteCell
  /\ UNCHANGED <<script, edited, netlist, raw, refused>>

\* gate_zd_pair_contract.sh and gate_zd_pair_rtl.sh, whose other checks may
\* fail too.
Contract ==
  /\ step = "contract" /\ Len(table) = 256
  /\ \E sound \in BOOLEAN : Require(sound /\ table = PinnedTable, "rtl")
  /\ table' = <<>>
  /\ UNCHANGED <<timer, tools, printed, edited, netlist, raw, refused>>

Rtl ==
  /\ step = "rtl"
  /\ \E sound \in BOOLEAN : Require(sound /\ RomPasses(RomInTree), "rom")
  /\ UNCHANGED <<timer, tools, printed, files>>

RomCheck ==
  /\ step = "rom"
  /\ Require(RomPasses(RomInTree), "a")
  /\ UNCHANGED <<timer, tools, printed, files>>

-----------------------------------------------------------------------------
(* Synthesis. *)

\* The log must also end well and show the six known warnings.
Synthesise(run, next) ==
  /\ step = run
  /\ \E code \in {0, 1} \cup TimedOut, warnings \in BOOLEAN, made \in Artifacts :
       /\ Timed(code, warnings, next)
       /\ netlist' = [netlist EXCEPT ![run] = made]
  /\ UNCHANGED <<edited, table, raw, refused>>

\* Mutant: the Verilog netlists, the last of three, are not compared.
CompareReports ==
  /\ step = "compare"
  /\ Require(\A k \in Kinds \ {"verilog"} : netlist["a"][k] = netlist["b"][k], "validate")
  /\ UNCHANGED <<timer, tools, printed, files>>

Compare ==
  /\ step = "compare"
  /\ Require(netlist["a"] = netlist["b"], "validate")
  /\ UNCHANGED <<timer, tools, printed, files>>

\* validate_synth_receipt.py; past the hashes its other checks are settled.
SynthPasses(manifest, stat, json) == manifest = stat /\ stat = json /\ json = "pinned"
SynthManifest == IF edited = "synth manifest" THEN "other" ELSE "pinned"

Validate ==
  /\ step = "validate"
  /\ Require(SynthPasses(SynthManifest, netlist["a"]["stat"], netlist["a"]["json"]), "tamper")
  /\ UNCHANGED <<timer, tools, printed, files>>

\* What the validators say of each altered input, in order.
SynthTampers ==
  LET made == netlist["a"]
  IN  <<SynthPasses("other", made["stat"], made["json"]),
        SynthPasses(SynthManifest, "other", made["json"]),
        SynthPasses(SynthManifest, made["stat"], "other"),
        RomPasses(Flip(RomInTree))>>

Tamper(validator, tampers, next) ==
  LET k == refused[validator] + 1
  IN  /\ refused' = IF tampers[k] THEN refused ELSE [refused EXCEPT ![validator] = k]
      /\ IF tampers[k] THEN Exit(1) ELSE IF k = Len(tampers) THEN GoTo(next) ELSE GoTo(step)
      /\ UNCHANGED <<timer, tools, printed, edited, table, netlist, raw>>

TamperSynth == step = "tamper" /\ Tamper("synth", SynthTampers, "announce")

Announce ==
  /\ step = "announce" /\ GoTo("compile")
  /\ printed' = printed \cup {"SYNTH_GATE_PASS"}
  /\ UNCHANGED <<timer, tools, files>>

-----------------------------------------------------------------------------
(* Post-synthesis simulation. *)

Compile ==
  /\ step = "compile"
  /\ \E code \in {0, 1} \cup TimedOut : Timed(code, TRUE, "primary")
  /\ UNCHANGED files

\* normalize_iverilog_log.py removes the $finish line, which must be one.
Normalised(run) == raw[run][1]

\* Only the primary log is searched for the receipt.
Simulate(run, next) ==
  /\ step = run
  /\ \E code \in {0, 1} \cup TimedOut, text \in Texts, finish \in Finish :
       /\ Timed(code, Len(finish) = 1 /\ (run = "primary" => text # "no receipt"), next)
       /\ raw' = [raw EXCEPT ![run] = <<text, finish>>]
  /\ UNCHANGED <<edited, table, netlist, refused>>

PostsynthPasses(manifest, verilog, text) == manifest = verilog /\ verilog = "pinned" /\ text = "receipt"
PostsynthManifest ==
  IF edited \in {"synth manifest", "postsynth manifest"} THEN "other" ELSE "pinned"

\* cmp of the two normalised logs, then validate_postsynth_receipt.py.
Parity ==
  /\ step = "parity"
  /\ Require(/\ Normalised("primary") = Normalised("replay")
             /\ PostsynthPasses(PostsynthManifest, netlist["a"]["verilog"], Normalised("primary")),
             "tamper parity")
  /\ UNCHANGED <<timer, tools, printed, files>>

PostsynthTampers ==
  LET verilog == netlist["a"]["verilog"]
  IN  <<PostsynthPasses("other", verilog, Normalised("primary")),
        PostsynthPasses(PostsynthManifest, verilog, "no receipt"),
        PostsynthPasses(PostsynthManifest, "other", Normalised("primary"))>>

TamperParity == step = "tamper parity" /\ Tamper("postsynth", PostsynthTampers, "announce parity")

AnnounceParity ==
  /\ step = "announce parity" /\ Exit(0)
  /\ printed' = printed \cup {"POSTSYNTH_GATE_PASS"}
  /\ UNCHANGED <<timer, tools, files>>

-----------------------------------------------------------------------------
Next ==
  \/ CheckTools("contract") /\ UNCHANGED files
  \/ WriteTable \/ Contract \/ Rtl \/ RomCheck
  \/ Synthesise("a", "b") \/ Synthesise("b", "compare") \/ Compare \/ Validate \/ TamperSynth
  \/ Announce \/ Compile \/ Simulate("primary", "replay") \/ Simulate("replay", "parity")
  \/ Parity \/ TamperParity \/ AnnounceParity
  \/ Kill /\ UNCHANGED files

Spec == Init /\ [][Next]_<<script, files>>

-----------------------------------------------------------------------------
(***************************************************************************)
(* The first marker says that two syntheses gave the three pinned or equal *)
(* artifacts from an unedited tree, the second that two simulations of the *)
(* pinned netlist gave the receipt, although their raw logs may differ;    *)
(* each after all altered inputs were refused (lines 67-150, 195-260).     *)
(***************************************************************************)
PassIsEarned ==
  /\ "SYNTH_GATE_PASS" \in printed =>
       /\ edited \notin {"rom", "synth manifest"}
       /\ \A run \in {"a", "b"} : netlist[run]["stat"] = "pinned" /\ netlist[run]["json"] = "pinned"
       /\ netlist["a"]["verilog"] = netlist["b"]["verilog"]
       /\ refused.synth = 4
  /\ "POSTSYNTH_GATE_PASS" \in printed =>
       /\ "SYNTH_GATE_PASS" \in printed /\ edited = "nothing"
       /\ \A run \in {"a", "b"} : netlist[run]["verilog"] = "pinned"
       /\ \A run \in {"primary", "replay"} :
            raw[run] \in {<<"receipt", <<"here">>>>, <<"receipt", <<"elsewhere">>>>}
       /\ refused.postsynth = 3
  /\ (exit = 0) <=> ("POSTSYNTH_GATE_PASS" \in printed)
=============================================================================
