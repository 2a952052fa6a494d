--------------------------- MODULE SockOptsProofs ---------------------------
(***************************************************************************)
(* Options for lists of any length and any values that fit in the fields   *)
(* of the binary: what validate, options_to_binary and the driver make of  *)
(* a list is what the user asked for.                                      *)
(***************************************************************************)
EXTENDS SockOpts, NumberLemmas, SequenceTheorems, TLAPS

\* The numbers that are sent in 32 bits are below 2^31.
Fits ==
    \A o \in Options : o[1] \in {"send_timeout", "sndbuf", "recbuf"} /\ o[2] \in Nat =>
        o[2] < Half

AllNames == {"mode", "ip", "port", "family", "send_timeout", "active", "packet", "header",
             "sndbuf", "recbuf"}

\* The ten options and their default values.
LEMMA DefaultIs ==
    /\ Names = AllNames /\ Default = [n \in Names |-> Default[n]]
    /\ Default["mode"] = "list" /\ Default["ip"] = "none" /\ Default["port"] = 0
    /\ Default["family"] = "inet" /\ Default["send_timeout"] = Infinity
    /\ Default["active"] = "true" /\ Default["packet"] = 0 /\ Default["header"] = 0
    /\ Default["sndbuf"] = DefaultBuf /\ Default["recbuf"] = DefaultBuf
  BY DEF Default, Names, AllNames

-----------------------------------------------------------------------------
(***************************************************************************)
(* validate                                                                *)
(***************************************************************************)

\* The values validate leaves for a name
Held(n) ==
    CASE n = "packet" -> {0, 1, 2, 4}
      [] n = "send_timeout" -> {Infinity} \cup 1..(Half - 1)
      [] n \in {"sndbuf", "recbuf"} -> 1..(Half - 1)
      [] OTHER -> Legal(n)

\* Taking an option changes what it says something about, and nothing else.
LEMMA TakenIs ==
    ASSUME NEW o \in Options, NEW f
    PROVE  /\ DOMAIN Taken(f, o) = DOMAIN f \cup {n \in Names : Says(o, n)}
           /\ Taken(f, o) = [n \in DOMAIN Taken(f, o) |-> Taken(f, o)[n]]
           /\ \A n \in Names : Says(o, n) => Taken(f, o)[n] = Given(o, n)
           /\ \A n \in DOMAIN f : ~Says(o, n) => Taken(f, o)[n] = f[n]
  <1>1. o[1] \in AllNames /\ Names = AllNames
    BY OptionsAssumption, DefaultIs
  <1>2. CASE o[1] = "ip"
    <2> DEFINE g == [ip |-> o[2], family |-> FamilyOf(o[2])]
    <2>1. Taken(f, o) = Over(g, f)
      BY <1>2 DEF Taken
    <2>2. DOMAIN g = {"ip", "family"} /\ g["ip"] = o[2] /\ g["family"] = FamilyOf(o[2])
      OBVIOUS
    <2> HIDE DEF g
    <2>3. \A n : Says(o, n) <=> n \in {"ip", "family"}
      BY <1>2 DEF Says
    <2>4. Given(o, "ip") = o[2] /\ Given(o, "family") = FamilyOf(o[2])
      BY <1>2 DEF Given
    <2> QED
      BY <1>1, <2>1, <2>2, <2>3, <2>4 DEF Over, AllNames
  <1>3. CASE o[1] # "ip"
    <2>1. \A n : Says(o, n) <=> n = o[1]
      BY <1>3 DEF Says
    <2>2. CASE o = <<"packet", Raw>>
      <3> DEFINE g == [packet |-> 0]
      <3>1. Taken(f, o) = Over(g, f) /\ Given(o, "packet") = 0 /\ o[1] = "packet"
        BY <2>2 DEF Taken, Given
      <3>2. DOMAIN g = {"packet"} /\ g["packet"] = 0
        OBVIOUS
      <3> HIDE DEF g
      <3> QED
        BY <1>1, <2>1, <3>1, <3>2 DEF Over, AllNames
    <2>3. CASE o # <<"packet", Raw>>
      <3>1. Taken(f, o) = Over([n \in {o[1]} |-> o[2]], f) /\ Given(o, o[1]) = o[2]
        BY <1>3, <2>3 DEF Taken, Given
      <3> QED
        BY <1>1, <2>1, <3>1 DEF Over, AllNames
    <2> QED
      BY <2>2, <2>3
  <1> QED
    BY <1>2, <1>3

\* What a legal option says is held.
LEMMA GivenHeld ==
    ASSUME Fits, NEW o \in Options, o[2] \in Legal(o[1])
    PROVE  \A n \in Names : Says(o, n) => Given(o, n) \in Held(n)
  <1>1. o[1] \in AllNames /\ o = <<o[1], o[2]>>
    BY OptionsAssumption, DefaultIs
  <1>2. ASSUME NEW n, o[1] = "ip", n = "family" PROVE Given(o, n) \in Held(n)
    BY <1>2 DEF Given, Held, Legal, FamilyOf
  <1>3. CASE o[1] \in {"send_timeout", "sndbuf", "recbuf"}
    <2>1. \A n : Says(o, n) => n = o[1]
      BY <1>3 DEF Says
    <2>2. Given(o, o[1]) = o[2]
      BY <1>3 DEF Given
    <2>3. CASE o[1] = "send_timeout"
      <3>1. o[2] = Infinity \/ (o[2] \in Nat /\ o[2] > 0)
        BY <2>3 DEF Legal
      <3>2. o[2] \in Nat => o[2] < Half
        BY <2>3 DEF Fits
      <3>3. o[2] \in {Infinity} \cup 1..(Half - 1)
        BY <3>1, <3>2, BoundsAssumption
      <3> QED
        BY <2>1, <2>2, <2>3, <3>3 DEF Held
    <2>4. CASE o[1] \in {"sndbuf", "recbuf"}
      <3>1. o[2] \in Nat /\ o[2] > 0
        BY <2>4 DEF Legal
      <3>2. o[2] < Half
        BY <2>4, <3>1 DEF Fits
      <3>3. o[2] \in 1..(Half - 1)
        BY <3>1, <3>2, BoundsAssumption
      <3>4. Held(o[1]) = 1..(Half - 1)
        BY <2>4 DEF Held
      <3> QED
        BY <2>1, <2>2, <3>3, <3>4
    <2> QED
      BY <1>3, <2>3, <2>4
  <1>4. CASE o[1] = "packet"
    <2>1. \A n : Says(o, n) => n = "packet"
      BY <1>4 DEF Says
    <2>2. o[2] = Raw \/ o[2] \in {0, 1, 2, 4}
      BY <1>4 DEF Legal
    <2>3. o[2] = Raw => Given(o, "packet") = 0
      BY <1>1, <1>4 DEF Given
    <2>4. o[2] \in {0, 1, 2, 4} => Given(o, "packet") = o[2]
      <3>1. o[2] \in {0, 1, 2, 4} => o # <<"packet", Raw>>
        BY DEF Raw
      <3> QED
        BY <1>4, <3>1 DEF Given
    <2>5. Held("packet") = {0, 1, 2, 4}
      BY DEF Held
    <2> QED
      BY <2>1, <2>2, <2>3, <2>4, <2>5
  <1>5. CASE o[1] \in {"mode", "ip", "port", "family", "active", "header"}
    <2>1. Given(o, o[1]) = o[2] /\ Held(o[1]) = Legal(o[1])
      BY <1>5 DEF Given, Held
    <2> QED
      BY <1>2, <2>1 DEF Says
  <1> QED
    BY <1>1, <1>3, <1>4, <1>5 DEF AllNames

\* One clause after the other: w[i] is the result after i options.
Step(x, o) ==
    IF x.ok /\ Accepts(x.set, o) THEN [ok |-> TRUE, set |-> Taken(x.set, o)]
    ELSE [ok |-> FALSE, set |-> Empty]
Folding(w, list, n) ==
    w = [i \in 0..n |-> IF i = 0 THEN [ok |-> TRUE, set |-> Empty]
                        ELSE Step(w[i-1], list[i])]

\* The results exist, for every number of options.
LEMMA FoldingExists ==
    ASSUME NEW list, NEW n \in Nat
    PROVE  \E w : Folding(w, list, n)
  <1> DEFINE Bad == {m \in Nat : ~\E w : Folding(w, list, m)}
             e == [ok |-> TRUE, set |-> Empty]
  <1> SUFFICES ASSUME Bad # {} PROVE FALSE
    OBVIOUS
  <1>1. PICK m \in Bad : \A k \in Bad : m =< k
    BY LeastNumber
  <1> HIDE DEF e
  <1>2. CASE m = 0
    <2>1. Folding([i \in 0..0 |-> e], list, 0)
      BY DEF Folding, e
    <2> QED
      BY <1>1, <1>2, <2>1
  <1>3. CASE m # 0
    <2>1. m - 1 \in Nat /\ m - 1 \notin Bad
      BY <1>1, <1>3
    <2>2. PICK w : Folding(w, list, m - 1)
      BY <2>1
    <2>3. w = [i \in 0..(m - 1) |-> IF i = 0 THEN e ELSE Step(w[i-1], list[i])]
      BY <2>2 DEF Folding, e
    <2> DEFINE v == [i \in 0..m |-> IF i < m THEN w[i] ELSE Step(w[m-1], list[m])]
    <2>4. ASSUME NEW i \in 0..m
          PROVE  v[i] = IF i = 0 THEN e ELSE Step(v[i-1], list[i])
      <3>1. CASE i = m
        BY <1>3, <3>1
      <3>2. CASE i # m
        <4>1. i \in 0..(m - 1) /\ v[i] = w[i] /\ (i # 0 => v[i-1] = w[i-1])
          BY <3>2
        <4>2. w[i] = IF i = 0 THEN e ELSE Step(w[i-1], list[i])
          BY <2>3, <4>1
        <4> QED
          BY <4>1, <4>2
      <3> QED
        BY <3>1, <3>2
    <2>5. Folding(v, list, m)
      BY <2>4 DEF Folding, e
    <2> QED
      BY <1>1, <2>5
  <1> QED
    BY <1>2, <1>3

\* The places among the first i that say something about a name
Gives(list, n, i) == {j \in 1..i : Says(list[j], n)}

\* What is known of the options f taken from the first i options of a list
Tells(f, list, i) ==
    /\ f = [n \in DOMAIN f |-> f[n]]
    /\ DOMAIN f = {n \in Names : Gives(list, n, i) # {}}
    /\ \A n \in DOMAIN f : f[n] = Given(list[Max(Gives(list, n, i))], n) /\ f[n] \in Held(n)
    /\ "ip" \in DOMAIN f => f["family"] = FamilyOf(f["ip"])

\* The last place is the largest.
LEMMA MaxIsLast ==
    ASSUME NEW S, NEW m \in Nat, m \in S, \A k \in S : k \in Nat /\ k =< m
    PROVE  Max(S) = m
  <1>1. \E x \in S : \A y \in S : x >= y
    OBVIOUS
  <1>2. Max(S) \in S /\ \A y \in S : Max(S) >= y
    BY <1>1 DEF Max
  <1>3. Max(S) \in Nat /\ Max(S) =< m /\ Max(S) >= m
    BY <1>2
  <1> QED
    BY <1>3

\* One more option.
LEMMA TellsStep ==
    ASSUME Fits, NEW list \in Seq(Options), NEW m \in 1..Len(list), NEW f,
           Tells(f, list, m - 1), Accepts(f, list[m])
    PROVE  Tells(Taken(f, list[m]), list, m)
  <1>1. PICK o \in Options : o = list[m]
    BY ElementOfSeq
  <1>2. Len(list) \in Nat /\ m \in Nat
    BY LenProperties
  <1>3. PICK g : g = Taken(f, o)
    OBVIOUS
  <1>4. /\ DOMAIN g = DOMAIN f \cup {n \in Names : Says(o, n)}
        /\ g = [n \in DOMAIN g |-> g[n]]
        /\ \A n \in Names : Says(o, n) => g[n] = Given(o, n)
        /\ \A n \in DOMAIN f : ~Says(o, n) => g[n] = f[n]
    <2>1. /\ DOMAIN Taken(f, o) = DOMAIN f \cup {n \in Names : Says(o, n)}
          /\ Taken(f, o) = [n \in DOMAIN Taken(f, o) |-> Taken(f, o)[n]]
          /\ \A n \in Names : Says(o, n) => Taken(f, o)[n] = Given(o, n)
          /\ \A n \in DOMAIN f : ~Says(o, n) => Taken(f, o)[n] = f[n]
      BY TakenIs
    <2> QED
      BY <1>3, <2>1
  <1>5. /\ DOMAIN f = {n \in Names : Gives(list, n, m - 1) # {}}
        /\ \A n \in DOMAIN f : /\ f[n] = Given(list[Max(Gives(list, n, m - 1))], n)
                               /\ f[n] \in Held(n)
        /\ "ip" \in DOMAIN f => f["family"] = FamilyOf(f["ip"])
    BY DEF Tells
  <1>6. ASSUME NEW n, Says(o, n)
        PROVE  m \in Gives(list, n, m) /\ Max(Gives(list, n, m)) = m
    <2>1. m \in Gives(list, n, m) /\ \A k \in Gives(list, n, m) : k \in Nat /\ k =< m
      BY <1>1, <1>2, <1>6 DEF Gives
    <2> QED
      BY <1>2, <2>1, MaxIsLast
  <1>7. ASSUME NEW n, ~Says(o, n) PROVE Gives(list, n, m) = Gives(list, n, m - 1)
    <2>1. \A j : j \in 1..m <=> j \in 1..(m - 1) \/ j = m
      BY <1>2
    <2> QED
      BY <1>1, <1>7, <2>1 DEF Gives
  <1>8. o[2] \in Legal(o[1])
    BY <1>1 DEF Accepts
  <1>9. DOMAIN g = {n \in Names : Gives(list, n, m) # {}}
    BY <1>4, <1>5, <1>6, <1>7
  <1>10. ASSUME NEW n \in DOMAIN g
         PROVE  g[n] = Given(list[Max(Gives(list, n, m))], n) /\ g[n] \in Held(n)
    <2>1. CASE Says(o, n)
      BY <1>1, <1>4, <1>6, <1>8, <1>9, <2>1, GivenHeld
    <2>2. CASE ~Says(o, n)
      BY <1>4, <1>5, <1>7, <2>2
    <2> QED
      BY <2>1, <2>2
  <1>11. ASSUME "ip" \in DOMAIN g PROVE g["family"] = FamilyOf(g["ip"])
    <2>0. "ip" \in Names /\ "family" \in Names
      BY DefaultIs DEF AllNames
    <2>1. CASE o[1] = "ip"
      <3>1. Says(o, "ip") /\ Says(o, "family")
        BY <2>1 DEF Says
      <3>2. Given(o, "ip") = o[2] /\ Given(o, "family") = FamilyOf(o[2])
        BY <2>1 DEF Given
      <3> QED
        BY <1>4, <2>0, <3>1, <3>2
    <2>2. CASE o[1] # "ip"
      <3>1. "ip" \in DOMAIN f /\ g["ip"] = f["ip"]
        BY <1>4, <1>11, <2>2 DEF Says
      <3>2. "family" \in DOMAIN f
        <4>1. Gives(list, "ip", m - 1) \subseteq Gives(list, "family", m - 1)
          BY DEF Gives, Says
        <4> QED
          BY <1>5, <2>0, <3>1, <4>1
      <3>3. CASE o[1] = "family"
        <4>1. g["family"] = o[2] /\ f["family"] = o[2]
          BY <1>1, <1>4, <2>0, <3>1, <3>3 DEF Says, Given, Accepts
        <4> QED
          BY <1>5, <3>1, <4>1
      <3>4. CASE o[1] # "family"
        BY <1>4, <1>5, <2>2, <3>1, <3>2, <3>4 DEF Says
      <3> QED
        BY <3>3, <3>4
    <2> QED
      BY <2>1, <2>2
  <1> QED
    BY <1>1, <1>3, <1>4, <1>9, <1>10, <1>11 DEF Tells

\* What validate makes of a list it accepts.
LEMMA ValidTells ==
    ASSUME Fits, NEW list \in Seq(Options), Valid(list)
    PROVE  Tells(validate(list), list, Len(list))
  <1>1. Len(list) \in Nat
    BY LenProperties
  <1>2. PICK w : Folding(w, list, Len(list)) /\ Folded(list) = w[Len(list)]
    <2> DEFINE w == CHOOSE w : Folding(w, list, Len(list))
    <2>1. Folding(w, list, Len(list))
      BY <1>1, FoldingExists
    <2>2. Folded(list) = w[Len(list)]
      BY DEF Folded, Folding, Step
    <2> QED
      BY <2>1, <2>2
  <1> DEFINE e == [ok |-> TRUE, set |-> Empty]
  <1>3. e.set = Empty
    OBVIOUS
  <1> HIDE DEF e
  <1>4. w = [i \in 0..Len(list) |-> IF i = 0 THEN e ELSE Step(w[i-1], list[i])]
    BY <1>2 DEF Folding, e
  <1>5. w[0] = e /\ \A i \in 1..Len(list) : w[i] = Step(w[i-1], list[i])
    BY <1>1, <1>4
  <1> DEFINE Bad == {m \in 0..Len(list) : w[m].ok /\ ~Tells(w[m].set, list, m)}
  <1>6. Bad = {}
    <2> SUFFICES ASSUME Bad # {} PROVE FALSE
      OBVIOUS
    <2> Bad \subseteq Nat
      BY <1>1
    <2>1. PICK m \in Bad : \A k \in Bad : m =< k
      BY LeastNumber
    <2>2. CASE m = 0
      <3>1. Empty = [n \in {} |-> 0] /\ \A n : Gives(list, n, 0) = {}
        BY DEF Empty, Gives
      <3>2. Tells(Empty, list, 0)
        BY <3>1 DEF Tells
      <3> QED
        BY <1>3, <1>5, <2>1, <2>2, <3>2
    <2>3. CASE m # 0
      <3>1. m \in 1..Len(list) /\ m - 1 \in 0..Len(list) /\ m - 1 \notin Bad
        BY <1>1, <2>1, <2>3
      <3>2. w[m] = Step(w[m-1], list[m]) /\ w[m].ok
        BY <1>5, <2>1, <3>1
      <3>3. w[m-1].ok /\ Accepts(w[m-1].set, list[m]) /\ w[m].set = Taken(w[m-1].set, list[m])
        <4>1. CASE w[m-1].ok /\ Accepts(w[m-1].set, list[m])
          BY <3>2, <4>1 DEF Step
        <4>2. CASE ~(w[m-1].ok /\ Accepts(w[m-1].set, list[m]))
          <5>1. w[m] = [ok |-> FALSE, set |-> Empty]
            BY <3>2, <4>2 DEF Step
          <5>2. w[m].ok <=> FALSE
            BY <5>1
          <5> QED
            BY <3>2, <5>2
        <4> QED
          BY <4>1, <4>2
      <3>4. Tells(w[m-1].set, list, m - 1)
        BY <3>1, <3>3
      <3>5. Tells(w[m].set, list, m)
        BY <3>1, <3>3, <3>4, TellsStep
      <3> QED
        BY <2>1, <3>5
    <2> QED
      BY <2>2, <2>3
  <1>7. w[Len(list)].ok => Tells(w[Len(list)].set, list, Len(list))
    BY <1>1, <1>6
  <1> QED
    BY <1>2, <1>7 DEF Valid, validate

-----------------------------------------------------------------------------
(***************************************************************************)
(* The binary and the driver                                               *)
(***************************************************************************)

\* Numbers that fit pass through the binary's fields and the driver's types.
LEMMA NumbersFit ==
    ASSUME NEW x \in 1..(Half - 1)
    PROVE  Truncated(x) = x /\ Signed(x) = x /\ Unsigned(x) = x
  <1>1. Half \in Nat /\ x \in Nat /\ x < Half /\ x < 2 * Half
    BY BoundsAssumption
  <1>2. 4 * Half * Half \in Nat /\ Half =< 4 * Half * Half
    <2>1. PICK h \in Nat : h = Half /\ h >= 1
      BY <1>1
    <2>2. h * h >= h
      BY <2>1
    <2> QED
      BY <2>1, <2>2
  <1>3. PICK k \in Nat : k = 4 * Half * Half /\ x < k
    BY <1>1, <1>2
  <1>4. x % k = x
    BY <1>1, <1>3
  <1> QED
    BY <1>1, <1>3, <1>4 DEF Truncated, Signed, Unsigned

\* The options after list is merged into base: what the list gives, and base
\* for the rest.
LEMMA Arrives ==
    ASSUME Fits, NEW list \in Seq(Options), Valid(list), NEW base,
           base = [n \in Names |-> base[n]],
           base["family"] = "inet" \/ "family" \notin DOMAIN validate(list)
    PROVE  /\ Asked(list, base) =
                [n \in Names |-> IF n \in DOMAIN validate(list) THEN validate(list)[n]
                                 ELSE base[n]]
           /\ Over(Decoded(options_to_binary(validate(list))), base) = Asked(list, base)
  <1>1. PICK f : f = validate(list)
    OBVIOUS
  <1>2. Tells(f, list, Len(list))
    BY <1>1, ValidTells
  <1>3. \A n : Giving(list, n) = Gives(list, n, Len(list))
    BY DEF Giving, Gives
  <1>4. /\ DOMAIN f = {n \in Names : Giving(list, n) # {}}
        /\ \A n \in DOMAIN f : f[n] = Given(list[Max(Giving(list, n))], n)
    BY <1>2, <1>3 DEF Tells
  <1>5. Asked(list, base) = [n \in Names |-> IF n \in DOMAIN f THEN f[n] ELSE base[n]]
    BY <1>4 DEF Asked
  <1>6. PICK b : b = options_to_binary(f)
    OBVIOUS
  <1>7. /\ DOMAIN b = {m \in DOMAIN f : m = "family" => f[m] = "inet6"}
        /\ \A n \in DOMAIN b : b[n] = f[n]
    <2>1. b = [n \in {m \in DOMAIN f : m = "family" => f[m] = "inet6"} |->
                 IF n \in {"send_timeout", "sndbuf", "recbuf"} /\ f[n] # Infinity
                 THEN Truncated(f[n]) ELSE f[n]]
      BY <1>6 DEF options_to_binary
    <2>2. ASSUME NEW n \in DOMAIN f, n \in {"send_timeout", "sndbuf", "recbuf"},
                 f[n] # Infinity
          PROVE  Truncated(f[n]) = f[n]
      <3>1. f[n] \in 1..(Half - 1)
        BY <1>2, <2>2 DEF Tells, Held
      <3> QED
        BY <3>1, NumbersFit
    <2> QED
      BY <2>1, <2>2
  <1>8. PICK d : d = Decoded(b)
    OBVIOUS
  <1>9. DOMAIN d = DOMAIN b /\ \A n \in DOMAIN b : d[n] = f[n]
    <2>1. d = [n \in DOMAIN b |-> IF n \in {"sndbuf", "recbuf"} THEN Signed(b[n]) ELSE b[n]]
      BY <1>8 DEF Decoded
    <2>2. ASSUME NEW n \in DOMAIN b, n \in {"sndbuf", "recbuf"} PROVE Signed(b[n]) = f[n]
      <3>1. f[n] \in 1..(Half - 1)
        BY <1>2, <1>7, <2>2 DEF Tells, Held
      <3> QED
        BY <1>7, <3>1, NumbersFit
    <2> QED
      BY <1>7, <2>1, <2>2
  <1>10. ASSUME NEW n \in Names, n \in DOMAIN f, n \notin DOMAIN b PROVE f[n] = base[n]
    <2>1. n = "family" /\ f[n] # "inet6"
      BY <1>7, <1>10
    <2>2. f[n] \in {"inet", "inet6"}
      <3>1. Held("family") = {"inet", "inet6"}
        BY DEF Held, Legal
      <3> QED
        BY <1>2, <1>10, <2>1, <3>1 DEF Tells
    <2> QED
      BY <1>1, <1>10, <2>1, <2>2
  <1>11. Over(d, base) = [n \in Names |-> IF n \in DOMAIN f THEN f[n] ELSE base[n]]
    <2>1. DOMAIN d \subseteq Names /\ DOMAIN base = Names
      BY <1>4, <1>7, <1>9
    <2>2. DOMAIN d \cup DOMAIN base = Names
      BY <2>1
    <2>3. ASSUME NEW n \in Names
          PROVE  (IF n \in DOMAIN d THEN d[n] ELSE base[n]) =
                 (IF n \in DOMAIN f THEN f[n] ELSE base[n])
      BY <1>7, <1>9, <1>10
    <2> QED
      BY <2>2, <2>3 DEF Over
  <1> QED
    BY <1>1, <1>5, <1>6, <1>8, <1>11

\* Options a handler can have
IsOpts(o) ==
    /\ o = [n \in Names |-> o[n]]
    /\ \A n \in Names : o[n] \in Held(n) \cup {Default[n]}
    /\ o["ip"] # "none" => o["family"] = FamilyOf(o["ip"])

\* They are as StoredOptsInv says.
LEMMA IsOptsStored == ASSUME IsOpts(opts) PROVE StoredOptsInv
  <1>1. \A n \in AllNames : opts[n] \in Held(n) \cup {Default[n]}
    BY DefaultIs DEF IsOpts
  <1>2. /\ opts["mode"] \in {"list", "binary"} /\ opts["family"] \in {"inet", "inet6"}
        /\ opts["active"] \in {"false", "once", "true"}
    <2>1. /\ Held("mode") = {"list", "binary"} /\ Held("family") = {"inet", "inet6"}
          /\ Held("active") = {"false", "once", "true"}
      BY DEF Held, Legal
    <2> QED
      BY <1>1, <2>1, DefaultIs DEF AllNames
  <1>3. opts["packet"] \in {0, 1, 2, 4} /\ opts["header"] \in 0..Max16
    <2>1. Held("packet") = {0, 1, 2, 4} /\ Held("header") = 1..Max16
      BY DEF Held, Legal
    <2>2. opts["packet"] \in {0, 1, 2, 4}
      BY <1>1, <2>1, DefaultIs DEF AllNames
    <2>3. opts["header"] \in 1..Max16 \/ opts["header"] = 0
      BY <1>1, <2>1, DefaultIs DEF AllNames
    <2>4. opts["header"] \in 0..Max16
      <3>1. Max16 \in Nat
        BY DEF Max16
      <3> QED
        BY <2>3, <3>1
    <2> QED
      BY <2>2, <2>4
  <1>4. opts["send_timeout"] = Infinity \/ opts["send_timeout"] > 0
    <2>1. Held("send_timeout") = {Infinity} \cup 1..(Half - 1)
      BY DEF Held
    <2> QED
      BY <1>1, <2>1, DefaultIs DEF AllNames
  <1>5. opts["sndbuf"] > 0 /\ opts["recbuf"] > 0
    <2>1. Held("sndbuf") = 1..(Half - 1) /\ Held("recbuf") = 1..(Half - 1)
      BY DEF Held
    <2> QED
      BY <1>1, <2>1, DefaultIs, BoundsAssumption DEF AllNames
  <1>6. TypeOK
    BY <1>2, <1>3, <1>4, <1>5 DEF TypeOK
  <1>7. FamilyMatchesAddress
    BY DEF FamilyMatchesAddress, IsOpts
  <1> QED
    BY <1>6, <1>7 DEF StoredOptsInv

\* Merging a list keeps them so, when it is the first or names no address.
LEMMA AskedIsOpts ==
    ASSUME Fits, NEW list \in Seq(Options), Valid(list), NEW base, IsOpts(base),
           base = Default \/ DOMAIN validate(list) \cap {"ip", "port", "family"} = {}
    PROVE  /\ IsOpts(Asked(list, base))
           /\ Over(Decoded(options_to_binary(validate(list))), base) = Asked(list, base)
  <1>1. PICK f : f = validate(list)
    OBVIOUS
  <1>2. Tells(f, list, Len(list))
    BY <1>1, ValidTells
  <1>3. base["family"] = "inet" \/ "family" \notin DOMAIN validate(list)
    BY DefaultIs
  <1>4. base = [n \in Names |-> base[n]]
    BY DEF IsOpts
  <1>5. PICK a : a = Asked(list, base)
    OBVIOUS
  <1>6. /\ a = [n \in Names |-> IF n \in DOMAIN f THEN f[n] ELSE base[n]]
        /\ Over(Decoded(options_to_binary(validate(list))), base) = a
    BY <1>1, <1>3, <1>4, <1>5, Arrives
  <1>7. "ip" \in Names /\ "family" \in Names
    BY DefaultIs DEF AllNames
  <1>8. \A n \in Names : a[n] \in Held(n) \cup {Default[n]}
    BY <1>2, <1>6 DEF Tells, IsOpts
  <1>9. ASSUME a["ip"] # "none" PROVE a["family"] = FamilyOf(a["ip"])
    <2>1. CASE "ip" \in DOMAIN f
      <3>1. "family" \in DOMAIN f
        <4>1. Gives(list, "ip", Len(list)) \subseteq Gives(list, "family", Len(list))
          BY DEF Gives, Says
        <4> QED
          BY <1>2, <1>7, <2>1, <4>1 DEF Tells
      <3> QED
        BY <1>2, <1>6, <1>7, <2>1, <3>1 DEF Tells
    <2>2. CASE "ip" \notin DOMAIN f
      <3>1. base # Default
        BY <1>6, <1>7, <1>9, <2>2, DefaultIs
      <3>2. "family" \notin DOMAIN f
        BY <1>1, <3>1
      <3> QED
        BY <1>6, <1>7, <1>9, <2>2, <3>2 DEF IsOpts
    <2> QED
      BY <2>1, <2>2
  <1>10. a = [n \in Names |-> a[n]]
    BY <1>6
  <1> QED
    BY <1>5, <1>6, <1>8, <1>9, <1>10 DEF IsOpts

-----------------------------------------------------------------------------
(***************************************************************************)
(* The handler's options                                                   *)
(***************************************************************************)

\* The inductive invariant, on any schedule
OptsInv ==
    /\ IsOpts(opts)
    /\ pt.busy => IsOpts(pt.copy) /\ opened
    /\ ~opened => opts = Default

\* The lists users give are sequences of options.
LEMMA ListsAreSeqs == Lists \subseteq Seq(Options)
  BY SeqDef, BoundsAssumption DEF Lists

\* The default options are options.
LEMMA DefaultIsOpts == IsOpts(Default)
  BY DefaultIs DEF IsOpts

\* Taking back {active, once} leaves options.
LEMMA PassiveIsOpts ==
    ASSUME NEW o, IsOpts(o)
    PROVE  IsOpts(Passive(o))
  <1>1. CASE o.active = "once"
    <2>1. PICK q : q = [o EXCEPT !.active = "false"]
      OBVIOUS
    <2>2. o = [n \in Names |-> o[n]] /\ "active" \in Names
      BY DefaultIs DEF IsOpts, AllNames
    <2>3. \A n \in Names : q[n] = IF n = "active" THEN "false" ELSE o[n]
      BY <2>1, <2>2
    <2>4. q = [n \in Names |-> q[n]]
      BY <2>1, <2>2
    <2>5. "false" \in Held("active")
      BY DEF Held, Legal
    <2>6. \A n \in Names : q[n] \in Held(n) \cup {Default[n]}
      BY <2>3, <2>5 DEF IsOpts
    <2>7. q["ip"] = o["ip"] /\ q["family"] = o["family"]
      BY <2>3, DefaultIs DEF AllNames
    <2>8. IsOpts(q)
      BY <2>4, <2>6, <2>7 DEF IsOpts
    <2> QED
      BY <1>1, <2>1, <2>8 DEF Passive
  <1>2. CASE o.active # "once"
    BY <1>2 DEF Passive
  <1> QED
    BY <1>1, <1>2

\* Every step keeps the invariant.
LEMMA OptsNext == ASSUME Fits PROVE OptsInv /\ [Next]_vars => OptsInv'
  <1> SUFFICES ASSUME OptsInv, [Next]_vars PROVE OptsInv'
    OBVIOUS
  <1>1. CASE UNCHANGED vars
    BY <1>1 DEF vars, OptsInv
  <1>2. ASSUME NEW list \in Lists, Open(list) PROVE OptsInv'
    <2>1. list \in Seq(Options)
      BY ListsAreSeqs
    <2>2. opts' = Asked(list, Default) /\ IsOpts(Asked(list, Default))
      BY <1>2, <2>1, DefaultIsOpts, AskedIsOpts DEF Open, decode
    <2> QED
      BY <1>2, <2>2 DEF Open, OptsInv
  <1>3. ASSUME NEW list \in Lists, Setopts(list) PROVE OptsInv'
    <2>1. list \in Seq(Options)
      BY ListsAreSeqs
    <2>2. IsOpts(decode_and_merge(opts, options_to_binary(validate(list))))
      BY <1>3, <2>1, AskedIsOpts DEF Setopts, decode_and_merge, OptsInv
    <2>3. pt'.copy = decode_and_merge(opts, options_to_binary(validate(list)))
      BY <1>3 DEF Setopts
    <2> QED
      BY <1>3, <2>2, <2>3 DEF Setopts, OptsInv
  <1>4. ASSUME SetoptsAssign PROVE OptsInv'
    <2>1. pt'.busy <=> FALSE
      BY <1>4 DEF SetoptsAssign, NoCall
    <2> QED
      BY <1>4, <2>1 DEF SetoptsAssign, OptsInv
  <1>5. ASSUME Deliver PROVE OptsInv'
    BY <1>5, PassiveIsOpts DEF Deliver, OptsInv
  <1> QED
    BY <1>1, <1>2, <1>3, <1>4, <1>5 DEF Next

\* Whatever options are given, opened with or set, on one scheduler or several,
\* the handler has legal values that agree with each other, if the numbers fit
\* in the binary's fields (gen_utp_opts.erl does not check that they do).
THEOREM StoredOptsLegal ==
    ASSUME Fits
    PROVE  Spec => []StoredOptsInv
  <1>1. Init => OptsInv
    <2> SUFFICES ASSUME Init PROVE OptsInv
      OBVIOUS
    <2>1. pt.busy <=> FALSE
      BY DEF Init, NoCall
    <2> QED
      BY <2>1, DefaultIsOpts DEF Init, OptsInv
  <1>2. OptsInv /\ [Next]_vars => OptsInv'
    BY OptsNext
  <1>3. OptsInv => StoredOptsInv
    BY IsOptsStored DEF OptsInv
  <1> QED
    BY <1>1, <1>2, <1>3, PTL DEF Spec

\* With one scheduler the driver has what was asked for, and setopts is about
\* to store what that call asks for.
AskedInv == OptsInv /\ opts = want /\ (pt.busy => pt.copy = Asked(pt.list, want))

\* Every step keeps it, if no delivery comes between the two halves of setopts.
LEMMA AskedNext == ASSUME Fits, ~SMP PROVE AskedInv /\ [Next]_vars => AskedInv'
  <1> SUFFICES ASSUME AskedInv, [Next]_vars PROVE AskedInv'
    OBVIOUS
  <1>0. OptsInv /\ OptsInv' /\ opts = want
    BY OptsNext DEF AskedInv
  <1>1. CASE UNCHANGED vars
    BY <1>0, <1>1 DEF vars, AskedInv
  <1>2. ASSUME NEW list \in Lists, Open(list) PROVE AskedInv'
    <2>1. list \in Seq(Options)
      BY ListsAreSeqs
    <2>2. opts' = Asked(list, Default)
      BY <1>2, <2>1, DefaultIsOpts, AskedIsOpts DEF Open, decode
    <2>3. UNCHANGED pt /\ ~pt.busy /\ want' = Asked(list, Default)
      BY <1>0, <1>2 DEF Open, OptsInv
    <2> QED
      BY <1>0, <2>2, <2>3 DEF AskedInv
  <1>3. ASSUME NEW list \in Lists, Setopts(list) PROVE AskedInv'
    <2>1. list \in Seq(Options)
      BY ListsAreSeqs
    <2>2. decode_and_merge(opts, options_to_binary(validate(list))) = Asked(list, opts)
      BY <1>0, <1>3, <2>1, AskedIsOpts DEF Setopts, decode_and_merge, OptsInv
    <2>3. pt'.copy = Asked(list, opts) /\ pt'.list = list /\ UNCHANGED <<opts, want>>
      BY <1>3, <2>2 DEF Setopts
    <2> QED
      BY <1>0, <2>3 DEF AskedInv
  <1>4. ASSUME SetoptsAssign PROVE AskedInv'
    <2>1. pt'.busy <=> FALSE
      BY <1>4 DEF SetoptsAssign, NoCall
    <2>2. opts' = want'
      BY <1>4 DEF SetoptsAssign, AskedInv
    <2> QED
      BY <1>0, <2>1, <2>2 DEF AskedInv
  <1>5. ASSUME Deliver PROVE AskedInv'
    BY <1>0, <1>5 DEF Deliver, AskedInv
  <1> QED
    BY <1>1, <1>2, <1>3, <1>4, <1>5 DEF Next

\* It is an invariant.
LEMMA AskedInvariant == ASSUME Fits, ~SMP PROVE Spec => []AskedInv
  <1>1. Init => AskedInv
    <2> SUFFICES ASSUME Init PROVE AskedInv
      OBVIOUS
    <2>1. pt.busy <=> FALSE
      BY DEF Init, NoCall
    <2> QED
      BY <2>1, DefaultIsOpts DEF Init, OptsInv, AskedInv
  <1>2. AskedInv /\ [Next]_vars => AskedInv'
    BY AskedNext
  <1> QED
    BY <1>1, <1>2, PTL DEF Spec

\* On one scheduler, and if the numbers fit, the handler has exactly the
\* options asked for after any sequence of lists: the last value given for
\* each name, and the family of the last address or family.
THEOREM OptionsAsAsked ==
    ASSUME Fits, ~SMP
    PROVE  Spec => []OptsAsAsked
  <1>1. AskedInv => OptsAsAsked
    BY DEF AskedInv, OptsAsAsked
  <1> QED
    BY <1>1, AskedInvariant, PTL

\* For lists of names of any length getopts answers with what was set for each, in
\* the order asked for; not for header, which validate_names (gen_utp_opts.erl)
\* lets through and the driver's getopts (socket_handler.cc) does not know.
THEOREM GetoptsReturnsSet ==
    ASSUME Fits, ~SMP, "header" \notin AskNames
    PROVE  Spec => []GetReturnsSet
  <1>1. ASSUME AskedInv, NEW n, Known(n) PROVE Encoded(opts, n) = want[n]
    <2>1. opts = want /\ IsOpts(opts)
      BY <1>1 DEF AskedInv, OptsInv
    <2>2. CASE n \notin {"sndbuf", "recbuf"}
      BY <2>1, <2>2 DEF Encoded
    <2>3. CASE n \in {"sndbuf", "recbuf"}
      <3>1. Held(n) = 1..(Half - 1) /\ Default[n] = DefaultBuf /\ n \in Names
        BY <2>3, DefaultIs DEF Held, AllNames
      <3>2. opts[n] \in 1..(Half - 1)
        BY <2>1, <3>1, BoundsAssumption DEF IsOpts
      <3>3. Unsigned(opts[n]) = opts[n]
        BY <3>2, NumbersFit
      <3> QED
        BY <2>1, <2>3, <3>3 DEF Encoded
    <2> QED
      BY <2>2, <2>3
  <1>2. AskedInv => GetReturnsSet
    <2> SUFFICES ASSUME AskedInv, NEW names \in NameLists
                 PROVE  getopts(opts, names)
                          = <<"ok", [i \in DOMAIN names |-> <<names[i], want[names[i]]>>]>>
      BY DEF GetReturnsSet
    <2>1. \A i \in DOMAIN names : Known(names[i])
      <3> SUFFICES ASSUME NEW i \in DOMAIN names PROVE Known(names[i])
        OBVIOUS
      <3>1. NameOk(names[i])
        BY DEF NameLists
      <3>2. PICK k \in 0..MaxList : names \in [1..k -> AskNames]
        BY DEF NameLists
      <3>3. names[i] \in AskNames
        BY <3>2
      <3> QED
        BY <3>1, <3>3 DEF Known
    <2>2. \A i \in DOMAIN names : Encoded(opts, names[i]) = want[names[i]]
      BY <1>1, <2>1
    <2>3. [i \in DOMAIN names |-> <<names[i], Encoded(opts, names[i])>>]
            = [i \in DOMAIN names |-> <<names[i], want[names[i]]>>]
      BY <2>2
    <2> QED
      BY <2>1, <2>3 DEF getopts
  <1> QED
    BY <1>2, AskedInvariant, PTL
=============================================================================
