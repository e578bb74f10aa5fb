---------------------------- MODULE MCBundleRun -----------------------------
(* Bundles for TLC: two exports of one organisation (its key rotated between them), one from
   before signed exports, and one of another organisation. *)
EXTENDS BundleRun, TLC

MCMember ==
  {"chain", "report", "reportSig", "keys", "snapshot", "corpus", "rules", "policy", "custody",
   "sample", "sampleSig", "record"}

Key(id, from, to) == [id |-> id, pub |-> id, custody |-> "vendor", from |-> from, to |-> to]
Early == <<Key("k1", 1, NoTime)>>
Late == <<Key("k1", 1, 3), Key("k2", 3, NoTime)>>
Foreign == <<Key("kx", 1, NoTime)>>
Twice == Early \o Late
MCKeyLists == [l \in {"l1", "l2", "lx"} |-> CASE l = "l1" -> Early [] l = "l2" -> Late [] OTHER -> Foreign]

MCChains == [c \in {"c1", "c2", "cx"} |->
  [statuses |-> IF c = "c2" THEN {"pass"} ELSE {"pass", "info"},
   intact |-> CASE c = "c1" -> {"h1"} [] c = "c2" -> {"h1", "h2"} [] OTHER -> {"hx"},
   records |-> CASE c = "c1" -> {"row1"} [] c = "c2" -> {"row1", "row2"} [] OTHER -> {"rowx"}]]

MCRows == [u \in {"u1", "u2", "ux"} |-> CASE u = "u1" -> {"row1"} [] u = "u2" -> {"row2"} [] OTHER -> {"rowx"}]

MCRecords == [v \in {"v1", "vx"} |->
  [arch |-> IF v = "v1" THEN "ours" ELSE "theirs", statuses |-> {"pass", "info"}]]

MCUpdatedAt == [s \in {"s1", "s2", "s0", "sx", Damaged} |-> IF s = Damaged THEN NoTime ELSE 1]

\* An imported fact goes stale at 3; a region is only allowed under its policy.
MCResults(p, s, at, policy) ==
  (IF p = "p1" THEN {"wide"} ELSE {}) \cup (IF at >= 3 THEN {"stale"} ELSE {})
  \cup (IF policy = "home" THEN {"region"} ELSE {})

States(snapshot_, packs_, corpus_, head, key) ==
  [f \in StatedField |->
     CASE f = "snapshot" -> snapshot_ [] f = "packs" -> packs_ [] f = "corpus" -> corpus_
       [] f = "head" -> head [] f = "key" -> key]

Signed(snapshot_, packs_, head, key, at, results) ==
  [state |-> "signed", own |-> States(snapshot_, packs_, "corpus1", head, key), snapshot |-> snapshot_,
   generated |-> at, results |-> results, lists |-> {packs_},
   arch |-> IF head = "hx" THEN "theirs" ELSE "ours"]

MCReports == [r \in {"r1", "r2", "r0", "rx"} |->
  CASE r = "r1" -> Signed("s1", "p1", "h1", "k1", 1, {"wide", "region"})
    [] r = "r2" -> Signed("s2", "p2", "h2", "k2", 3, {"stale"})
    [] r = "rx" -> Signed("sx", "p1", "hx", "kx", 1, {"wide", "region"})
    [] OTHER -> [state |-> "", own |-> Unstated, snapshot |-> Nothing, generated |-> NoTime,
                 results |-> {"wide"}, lists |-> {}, arch |-> "ours"]]

Sealed(file, states, key, at) ==
  LET e == [known |-> TRUE, file |-> file, states |-> states, key |-> key, custody |-> "vendor",
            from |-> IF key = "k2" THEN 3 ELSE 1, at |-> at]
  IN e @@ [seal |-> [by |-> key, over |-> Message(e)]]

Files(chain_, report, sig, keys_, snapshot_, rules_, policy, custody, sample, sampleSig, record) ==
  [m \in MCMember |->
     CASE m = "chain" -> chain_ [] m = "report" -> report [] m = "reportSig" -> sig [] m = "keys" -> keys_
       [] m = "snapshot" -> snapshot_ [] m = "corpus" -> "corpus1" [] m = "rules" -> rules_
       [] m = "policy" -> policy [] m = "custody" -> custody [] m = "sample" -> sample
       [] m = "sampleSig" -> sampleSig [] m = "record" -> record]

Listing(f, at, arch) ==
  [items |-> [m \in {n \in MCMember : f[n] # Absent} |-> f[m]], produced |-> at, arch |-> arch]

Files1 == Files("c1", "r1", "g1", "l1", "s1", "p1", "home", "u1", "x1", "y1", "v1")
Files2 == Files("c2", "r2", "g2", "l2", "s2", "p2", "away", "u2", Absent, Absent, Absent)
Files0 == Files("c1", "r0", Absent, Absent, "s0", "p1", Absent, Absent, Absent, Absent, Absent)
FilesX == Files("cx", "rx", "gx", "lx", "sx", "p1", "home", "ux", Absent, Absent, "vx")

Export(f, at, arch, sig) == [files |-> f, manifest |-> Listing(f, at, arch), zipSig |-> sig]
Export1 == Export(Files1, 2, "ours", "z1")
Export2 == Export(Files2, 3, "ours", "z2")
Export0 == Export(Files0, 1, "ours", Absent)
ExportX == Export(FilesX, 1, "theirs", "zx")
MCOurs == {Export1, Export2, Export0}
MCExports == MCOurs \cup {ExportX}

MCEnvelopes == [e \in {"g1", "g2", "gx", "y1", "z1", "z2", "zx"} |->
  CASE e = "g1" -> Sealed("r1", MCReports["r1"].own, "k1", 1)
    [] e = "g2" -> Sealed("r2", MCReports["r2"].own, "k2", 3)
    [] e = "gx" -> Sealed("rx", MCReports["rx"].own, "kx", 1)
    [] e = "y1" -> Sealed("x1", Unstated, "k1", 1)
    [] e = "z1" -> Sealed(<<Files1, Export1.manifest>>, Unstated, "k1", 2)
    [] e = "z2" -> Sealed(<<Files2, Export2.manifest>>, Unstated, "k2", 3)
    [] OTHER -> Sealed(<<FilesX, ExportX.manifest>>, Unstated, "kx", 1)]

Call(kind, list, rules_, lax, advisories, strict, now) ==
  [kind |-> kind, keys |-> list, rules |-> rules_, lax |-> lax, advisories |-> advisories,
   strict |-> strict, now |-> now]

MCSettings ==
  {Call("dir", NoKeys, Absent, FALSE, Absent, FALSE, 4),
   Call("dir", Late, "p2", TRUE, {}, TRUE, 2),
   Call("zip", Late, "p1", FALSE, {"p2"}, TRUE, 4),
   Call("zip", NoKeys, Absent, TRUE, {"p1"}, FALSE, 1),
   Call("dir", Twice, Damaged, FALSE, Damaged, FALSE, 4),
   Call("dir", Damaged, Absent, FALSE, Unreadable, FALSE, 4),
   Call("report", Late, "p1", FALSE, {"p1"}, TRUE, 4),
   Call("report", NoKeys, "p2", TRUE, {"p1"}, FALSE, 4),
   Call("report", NoKeys, Damaged, FALSE, Unreadable, FALSE, 4)}

\* Few calls and two exports, for copies with three edits.
MCPlainCalls == {Call("dir", NoKeys, Absent, FALSE, Absent, FALSE, 4)}
MCTwoExports == {Export1, ExportX}
MCOneOfOurs == {Export1}
=============================================================================
