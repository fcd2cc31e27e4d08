---------------------------- MODULE InputProofs ----------------------------
(***************************************************************************)
(* What MCInput promises, for every size of the rings and every number of  *)
(* terminals: what ps2_init() leaves behind, that the scan code ring is a  *)
(* queue, that input goes to the current terminal only, and that a         *)
(* terminal is a line discipline.                                          *)
(***************************************************************************)
EXTENDS MCInput, TLAPS

\* How far ps2_init() is, and what it has found out about the second port by then.
SettingUp ==
    /\ step \in {"disable", "configure", "self_test", "second_port", "enable", "reset", "done"}
    /\ second \in {"works", "reads_0", "reads_1"}
    /\ dual_port \in BOOLEAN
    /\ (second = "reads_0" => 5 \notin config) /\ (second = "reads_1" => 5 \in config)
    /\ step = "configure" /\ second = "works" => 5 \in config
    /\ step \in {"self_test", "second_port"} => (dual_port <=> second # "reads_0")
    /\ step \in {"enable", "reset", "done"} =>
         (dual_port <=> second = "works") /\ (dual_port => 5 \in config)
    /\ step \in {"reset", "done"} => {0, 6} \subseteq config /\ 4 \notin config

\* The bits of the controller after a configuration byte was sent to it.
LEMMA WiredIs ==
  ASSUME second \in {"works", "reads_0", "reads_1"}, NEW c
  PROVE  /\ 5 \in Controller!Wired(c) <=> second = "reads_1" \/ (second = "works" /\ 5 \in c)
         /\ 0 \in Controller!Wired(c) <=> 0 \in c
         /\ 4 \in Controller!Wired(c) <=> 4 \in c
         /\ 6 \in Controller!Wired(c) <=> 6 \in c
<1>0. 0 # 5 /\ 4 # 5 /\ 6 # 5
  OBVIOUS
<1>1. CASE second = "works"
  BY <1>1 DEF Controller!Wired
<1>2. CASE second = "reads_0"
  <2>1. Controller!Wired(c) = c \ {5}
    BY <1>2 DEF Controller!Wired
  <2> QED BY <1>0, <1>2, <2>1, Zenon
<1>3. CASE second = "reads_1"
  <2>1. Controller!Wired(c) = c \cup {5}
    BY <1>3 DEF Controller!Wired
  <2> QED BY <1>0, <1>3, <2>1, Zenon
<1> QED BY <1>1, <1>2, <1>3

\* The controller at power-on.
LEMMA SettingUpInitial == Controller!Init => SettingUp
BY DEF Controller!Init, Controller!Wired, SettingUp

\* Each group of lines of ps2_init() leaves the controller as the next one expects it.
LEMMA SettingUpStep == SettingUp /\ [Controller!Next]_controllerVars => SettingUp'
<1> SUFFICES ASSUME SettingUp, [Controller!Next]_controllerVars PROVE SettingUp'
  OBVIOUS
<1>0. /\ second \in {"works", "reads_0", "reads_1"} /\ dual_port \in BOOLEAN
      /\ (second = "reads_0" => 5 \notin config) /\ (second = "reads_1" => 5 \in config)
  BY DEF SettingUp
<1>1. CASE Controller!Disable
  <2>1. config' = Controller!Wired(config \cup {4, 5}) /\ step' = "configure"
        /\ UNCHANGED <<second, dual_port>>
    BY <1>1 DEF Controller!Disable
  <2>2. 5 \in Controller!Wired(config \cup {4, 5}) <=> second # "reads_0"
    BY <1>0, WiredIs
  <2> QED BY <1>0, <2>1, <2>2 DEF SettingUp
<1>2. CASE Controller!Configure
  <2>1. config' = Controller!Wired(config \ {0, 1}) /\ step' = "self_test" /\ step = "configure"
        /\ dual_port' = (5 \in config) /\ second' = second
    BY <1>2 DEF Controller!Configure
  <2>2. 5 \in Controller!Wired(config \ {0, 1}) <=>
          second = "reads_1" \/ (second = "works" /\ 5 \in config)
    BY <1>0, WiredIs
  <2>3. second = "works" => 5 \in config
    BY <2>1 DEF SettingUp
  <2>4. (5 \in config) \in BOOLEAN /\ (5 \in config <=> second # "reads_0")
    BY <1>0, <2>3
  <2>5. (second = "reads_0" => 5 \notin config') /\ (second = "reads_1" => 5 \in config')
    BY <2>1, <2>2
  <2>6. dual_port' \in BOOLEAN /\ (dual_port' <=> second' # "reads_0")
    BY <2>1, <2>4, Zenon
  <2> QED BY <1>0, <2>1, <2>5, <2>6 DEF SettingUp
<1>3. CASE Controller!SelfTest
  <2>1. /\ config' = config \/ config' = Controller!Wired(power)
        /\ step' = "second_port" /\ step = "self_test" /\ UNCHANGED <<second, dual_port>>
    BY <1>3 DEF Controller!SelfTest
  <2>2. 5 \in Controller!Wired(power) <=>
          second = "reads_1" \/ (second = "works" /\ 5 \in power)
    BY <1>0, WiredIs
  <2>3. (second' = "reads_0" => 5 \notin config') /\ (second' = "reads_1" => 5 \in config')
    BY <1>0, <2>1, <2>2
  <2>4. dual_port <=> second # "reads_0"
    BY <2>1 DEF SettingUp
  <2> QED BY <1>0, <2>1, <2>3, <2>4 DEF SettingUp
<1>4. CASE Controller!SecondPort
  <2>1. PICK on : on = Controller!Wired(config \ {5})
    OBVIOUS
  <2>2. /\ config' = (IF dual_port THEN Controller!Wired(on \cup {5}) ELSE config)
        /\ dual_port' = (dual_port /\ 5 \notin on)
        /\ step = "second_port" /\ step' = "enable" /\ second' = second
    BY <1>4, <2>1 DEF Controller!SecondPort
  <2>3. 5 \in on <=> second = "reads_1"
    BY <1>0, <2>1, WiredIs
  <2>4. 5 \in Controller!Wired(on \cup {5}) <=> second # "reads_0"
    BY <1>0, WiredIs
  <2>5. dual_port <=> second # "reads_0"
    BY <2>2 DEF SettingUp
  <2> QED BY <1>0, <2>2, <2>3, <2>4, <2>5 DEF SettingUp
<1>5. CASE Controller!Enable
  <2>1. /\ config' = Controller!Wired((config \ {4}) \cup {0, 6})
        /\ step = "enable" /\ step' = "reset" /\ UNCHANGED <<second, dual_port>>
    BY <1>5 DEF Controller!Enable
  <2>2. /\ 5 \in config' <=> second = "reads_1" \/ (second = "works" /\ 5 \in config)
        /\ {0, 6} \subseteq config' /\ 4 \notin config'
    BY <1>0, <2>1, WiredIs
  <2>3. (dual_port <=> second = "works") /\ (dual_port => 5 \in config)
    BY <2>1 DEF SettingUp
  <2> QED BY <1>0, <2>1, <2>2, <2>3 DEF SettingUp
<1>6. CASE Controller!Reset
  BY <1>6 DEF Controller!Reset, SettingUp
<1>7. CASE UNCHANGED controllerVars
  BY <1>7 DEF controllerVars, SettingUp
<1> QED BY <1>1, <1>2, <1>3, <1>4, <1>5, <1>6, <1>7 DEF Controller!Next

\* Whatever bits the controller starts with or its self-test restores, ps2_init() ends
\* with port 1 on and translated, and with a second port found if it is there, and off.
THEOREM InputConfigured == InputSpec => []Configured
<1>1. InputInit => SettingUp
  BY SettingUpInitial DEF InputInit
<1>2. SettingUp /\ [InputNext]_allVars => SettingUp'
  <2>1. [InputNext]_allVars => [Controller!Next]_controllerVars
    BY DEF InputNext, allVars
  <2> QED BY <2>1, SettingUpStep
<1>3. SettingUp => Configured
  BY DEF SettingUp, Configured, Controller!Configured
<1> QED BY <1>1, <1>2, <1>3, PTL DEF InputSpec

-----------------------------------------------------------------------------
(* The scan code ring.                                                       *)

Byte == 0 .. 255
Index == 0 .. RingSize - 1

\* What a ring of n places with the content buf holds between two indices.
RingHeld(n, buf, r, w) == [i \in 1 .. (w - r) % n |-> buf[(r + i - 1) % n]]

\* The remainders that the ring takes.
LEMMA Around ==
  ASSUME NEW n \in Nat \ {0}, NEW x \in 0 .. n - 1, NEW y \in 0 .. n - 1
  PROVE  /\ (x - y) % n = IF x >= y THEN x - y ELSE x - y + n
         /\ (x + y) % n = IF x + y < n THEN x + y ELSE x + y - n
OBVIOUS

\* A ring that holds d bytes from r to w, when its write index becomes v.
OneMore(n, r, w, v, d) ==
    /\ v \in 0 .. n - 1 /\ d \in 0 .. n - 1
    /\ (v - r) % n = d + 1
    /\ (r + d) % n = w
    /\ \A i \in 1 .. d : (r + i - 1) % n # w /\ (r + i - 1) % n \in 0 .. n - 1

\* A ring from r to w, when its read index becomes s and it holds d bytes.
OneLess(n, r, w, s, d) ==
    /\ s \in 0 .. n - 1 /\ d \in 0 .. n - 1
    /\ (w - r) % n = d + 1
    /\ r % n = r
    /\ \A i \in 1 .. d : (s + i - 1) % n = (r + i) % n

\* The places of a ring whose byte is stored at w and that is read from r: it holds d.
LEMMA RingStored ==
  ASSUME NEW n \in Nat \ {0}, NEW r \in 0 .. n - 1, NEW w \in 0 .. n - 1,
         NEW v, v = (w + 1) % n, NEW d, d = (w - r) % n, v # r
  PROVE  OneMore(n, r, w, v, d)
<1>1. CASE n = 1
  BY <1>1 DEF OneMore
<1>2. CASE n > 1
  <2>1. 1 \in 0 .. n - 1
    BY <1>2
  <2>2. v = IF w + 1 < n THEN w + 1 ELSE w + 1 - n
    BY <2>1, Around
  <2>3. d = IF w >= r THEN w - r ELSE w - r + n
    BY Around
  <2>5. v \in 0 .. n - 1
    BY <2>2
  <2>6. (v - r) % n = IF v >= r THEN v - r ELSE v - r + n
    BY <2>5, Around
  <2>7. (v - r) % n = d + 1
    BY <2>2, <2>3, <2>5, <2>6
  <2>8. d \in 0 .. n - 1
    BY <2>3
  <2>9. (r + d) % n = IF r + d < n THEN r + d ELSE r + d - n
    BY <2>8, Around
  <2>10. (r + d) % n = w
    BY <2>3, <2>9
  <2>11. ASSUME NEW i \in 1 .. d
         PROVE  (r + i - 1) % n # w /\ (r + i - 1) % n \in 0 .. n - 1
    <3>1. i - 1 \in 0 .. n - 1 /\ r + i - 1 = r + (i - 1)
      BY <2>8
    <3>2. (r + (i - 1)) % n = IF r + (i - 1) < n THEN r + (i - 1) ELSE r + (i - 1) - n
      BY <3>1, Around
    <3> QED BY <2>3, <3>1, <3>2
  <2> QED BY <2>5, <2>7, <2>8, <2>10, <2>11, Zenon DEF OneMore
<1> QED BY <1>1, <1>2

\* The places of a ring that is not empty, when it is read from s instead of r.
LEMMA RingTaken ==
  ASSUME NEW n \in Nat \ {0}, NEW r \in 0 .. n - 1, NEW w \in 0 .. n - 1, r # w,
         NEW s, s = (r + 1) % n, NEW d, d = (w - s) % n
  PROVE  OneLess(n, r, w, s, d)
<1>1. 1 \in 0 .. n - 1
  OBVIOUS
<1>2. s = IF r + 1 < n THEN r + 1 ELSE r + 1 - n
  BY <1>1, Around
<1>3. s \in 0 .. n - 1
  BY <1>2
<1>4. d = IF w >= s THEN w - s ELSE w - s + n
  BY <1>3, Around
<1>5. d \in 0 .. n - 1
  BY <1>3, <1>4
<1>6. (w - r) % n = IF w >= r THEN w - r ELSE w - r + n
  BY Around
<1>7. (w - r) % n = d + 1
  BY <1>2, <1>3, <1>4, <1>6
<1>8. r % n = r
  OBVIOUS
<1>9. ASSUME NEW i \in 1 .. d PROVE (s + i - 1) % n = (r + i) % n
  <2>1. i - 1 \in 0 .. n - 1 /\ i \in 0 .. n - 1 /\ s + i - 1 = s + (i - 1)
    BY <1>3, <1>5
  <2>2. (s + (i - 1)) % n = IF s + (i - 1) < n THEN s + (i - 1) ELSE s + (i - 1) - n
    BY <1>3, <2>1, Around
  <2>3. (r + i) % n = IF r + i < n THEN r + i ELSE r + i - n
    BY <2>1, Around
  <2> QED BY <1>2, <1>3, <1>4, <1>5, <2>1, <2>2, <2>3
<1> QED BY <1>3, <1>5, <1>7, <1>8, <1>9, Zenon DEF OneLess

\* What the ring buf holds when b is stored at w, and when a byte is taken at r.
HoldsMore(X, n, buf, r, w, v, b) ==
    /\ RingHeld(n, buf, r, w) \in Seq(X)
    /\ RingHeld(n, [buf EXCEPT ![w] = b], r, v) = Append(RingHeld(n, buf, r, w), b)
HoldsLess(X, n, buf, r, w, s) ==
    /\ RingHeld(n, buf, s, w) \in Seq(X)
    /\ RingHeld(n, buf, r, w) = <<buf[r]>> \o RingHeld(n, buf, s, w)

\* A byte that is stored in a ring with room comes after all that the ring holds.
LEMMA RingHeldStored ==
  ASSUME NEW X, NEW n \in Nat \ {0}, NEW r \in 0 .. n - 1, NEW w \in 0 .. n - 1,
         NEW b \in X, NEW buf \in [0 .. n - 1 -> X], NEW v, v = (w + 1) % n, v # r
  PROVE  HoldsMore(X, n, buf, r, w, v, b)
<1>1. PICK d : d = (w - r) % n
  OBVIOUS
<1>2. /\ v \in 0 .. n - 1 /\ d \in 0 .. n - 1
      /\ (v - r) % n = d + 1
      /\ (r + d) % n = w
      /\ \A i \in 1 .. d : (r + i - 1) % n # w /\ (r + i - 1) % n \in 0 .. n - 1
  <2>1. OneMore(n, r, w, v, d)
    BY <1>1, RingStored
  <2> QED BY <2>1, Zenon DEF OneMore
<1>3. PICK h : h = RingHeld(n, buf, r, w)
  OBVIOUS
<1>4. h = [i \in 1 .. d |-> buf[(r + i - 1) % n]]
  BY <1>1, <1>3 DEF RingHeld
<1>5. \A i \in 1 .. d : buf[(r + i - 1) % n] \in X
  BY <1>2
<1>6. h \in Seq(X) /\ Len(h) = d
  BY <1>2, <1>4, <1>5
<1>7. PICK g : g = RingHeld(n, [buf EXCEPT ![w] = b], r, v)
  OBVIOUS
<1>8. g = [i \in 1 .. d + 1 |-> [buf EXCEPT ![w] = b][(r + i - 1) % n]]
  BY <1>2, <1>7 DEF RingHeld
<1>9. \A i \in 1 .. d : g[i] = h[i]
  BY <1>2, <1>4, <1>8
<1>10. g[d + 1] = b
  <2>1. d + 1 \in 1 .. d + 1 /\ r + (d + 1) - 1 = r + d
    BY <1>2
  <2>2. g[d + 1] = [buf EXCEPT ![w] = b][(r + (d + 1) - 1) % n]
    BY <1>8, <2>1
  <2>3. [buf EXCEPT ![w] = b][w] = b
    OBVIOUS
  <2> QED BY <1>2, <2>1, <2>2, <2>3
<1>11. g \in Seq(X) /\ Len(g) = d + 1
  <2>1. \A i \in 1 .. d + 1 : [buf EXCEPT ![w] = b][(r + i - 1) % n] \in X
    BY <1>2, <1>6, <1>8, <1>9, <1>10
  <2> QED BY <1>2, <1>8, <2>1
<1>12. PICK a : a = Append(h, b)
  OBVIOUS
<1>13. a \in Seq(X) /\ Len(a) = d + 1 /\ a[d + 1] = b /\ \A i \in 1 .. d : a[i] = h[i]
  BY <1>6, <1>12
<1>14. \A i \in 1 .. d + 1 : g[i] = a[i]
  <2>1. \A i \in 1 .. d + 1 : i \in 1 .. d \/ i = d + 1
    BY <1>2
  <2> QED BY <1>9, <1>10, <1>13, <2>1
<1>15. g = a
  BY <1>11, <1>13, <1>14
<1> QED BY <1>3, <1>6, <1>7, <1>12, <1>15, Zenon DEF HoldsMore

\* The byte at the read index is the first of a ring that is not empty.
LEMMA RingHeldTaken ==
  ASSUME NEW X, NEW n \in Nat \ {0}, NEW r \in 0 .. n - 1, NEW w \in 0 .. n - 1, r # w,
         NEW buf \in [0 .. n - 1 -> X], NEW s, s = (r + 1) % n
  PROVE  HoldsLess(X, n, buf, r, w, s)
<1>1. PICK d : d = (w - s) % n
  OBVIOUS
<1>2. /\ s \in 0 .. n - 1 /\ d \in 0 .. n - 1
      /\ (w - r) % n = d + 1
      /\ r % n = r
      /\ \A i \in 1 .. d : (s + i - 1) % n = (r + i) % n
  <2>1. OneLess(n, r, w, s, d)
    BY <1>1, RingTaken
  <2> QED BY <2>1, Zenon DEF OneLess
<1>3. PICK h : h = RingHeld(n, buf, s, w)
  OBVIOUS
<1>4. h = [i \in 1 .. d |-> buf[(s + i - 1) % n]]
  BY <1>1, <1>3 DEF RingHeld
<1>5. \A i \in 1 .. d : buf[(s + i - 1) % n] \in X
  BY <1>2
<1>6. h \in Seq(X) /\ Len(h) = d
  BY <1>2, <1>4, <1>5
<1>7. PICK g : g = RingHeld(n, buf, r, w)
  OBVIOUS
<1>8. g = [i \in 1 .. d + 1 |-> buf[(r + i - 1) % n]]
  BY <1>2, <1>7 DEF RingHeld
<1>9. g[1] = buf[r]
  BY <1>2, <1>8
<1>10. \A i \in 1 .. d : g[i + 1] = h[i]
  BY <1>2, <1>4, <1>8
<1>11. PICK a : a = <<buf[r]>> \o h
  OBVIOUS
<1>12. <<buf[r]>> \in Seq(X) /\ Len(<<buf[r]>>) = 1 /\ <<buf[r]>>[1] = buf[r]
  OBVIOUS
<1>13. a \in Seq(X) /\ Len(a) = d + 1
  BY <1>2, <1>6, <1>11, <1>12
<1>14. a[1] = buf[r] /\ \A i \in 1 .. d : a[i + 1] = h[i]
  BY <1>2, <1>6, <1>11, <1>12
<1>15. g \in Seq(X) /\ Len(g) = d + 1
  <2>1. \A i \in 1 .. d + 1 : buf[(r + i - 1) % n] \in X
    BY <1>2
  <2> QED BY <1>2, <1>8, <2>1
<1>16. \A j \in 1 .. d + 1 : g[j] = a[j]
  <2>1. SUFFICES ASSUME NEW j \in 1 .. d + 1 PROVE g[j] = a[j]
    OBVIOUS
  <2>2. CASE j = 1
    BY <1>9, <1>14, <2>2
  <2>3. CASE j # 1
    <3>1. j - 1 \in 1 .. d /\ (j - 1) + 1 = j
      BY <1>2, <2>3
    <3>2. g[(j - 1) + 1] = h[j - 1] /\ a[(j - 1) + 1] = h[j - 1]
      BY <1>10, <1>14, <3>1
    <3> QED BY <3>1, <3>2
  <2> QED BY <2>2, <2>3
<1>17. g = a
  BY <1>13, <1>15, <1>16
<1> QED BY <1>3, <1>6, <1>7, <1>11, <1>17, Zenon DEF HoldsLess

\* The indices of the ring, and what the bottom half has read but not taken yet.
RingIndices ==
    /\ buffer \in [Index -> Byte] /\ read_idx \in Index /\ write_idx \in Index
    /\ wire \in Seq(Byte)
    /\ {"at", "own", "byte"} \subseteq DOMAIN bh
    /\ bh.at = "loaded" => read_idx # write_idx /\ bh.byte = buffer[read_idx]
Histories ==
    /\ {"stored", "taken"} \subseteq DOMAIN hist
    /\ hist.stored \in Seq(Byte) /\ hist.taken \in Seq(Byte)
KeyRing == RingIndices /\ Histories /\ Keyboard!RingIsFifo

\* Appending to what follows a sequence.
AppendsLast(s, u, b) == Append(s \o u, b) = s \o Append(u, b)

\* It makes no difference where the sequences are put together.
LEMMA AppendLast ==
  ASSUME NEW X, NEW s \in Seq(X), NEW u \in Seq(X), NEW b \in X
  PROVE  AppendsLast(s, u, b)
<1>1. PICK x : x = Append(s \o u, b)
  OBVIOUS
<1>2. PICK y : y = s \o Append(u, b)
  OBVIOUS
<1>3. x \in Seq(X) /\ y \in Seq(X) /\ Len(x) = Len(y)
  BY <1>1, <1>2
<1>4. \A i \in 1 .. Len(x) : x[i] = y[i]
  BY <1>1, <1>2
<1>5. x = y
  BY <1>3, <1>4
<1> QED BY <1>1, <1>2, <1>5 DEF AppendsLast

\* What the ring holds is what Keyboard!Held says.
LEMMA HeldIs == Keyboard!Held = RingHeld(RingSize, buffer, read_idx, write_idx)
BY DEF Keyboard!Held, RingHeld

\* The ring at boot.
LEMMA KeyRingInitial == Keyboard!Init => KeyRing
<1> SUFFICES ASSUME Keyboard!Init PROVE KeyRing
  OBVIOUS
<1>1. /\ buffer = [i \in 0 .. RingSize - 1 |-> 0] /\ read_idx = 0 /\ write_idx = 0
      /\ bh = [at |-> "idle", own |-> TRUE, byte |-> 0]
      /\ wire = <<170>>
  BY DEF Keyboard!Init, Keyboard!SelfTested
<1>2. {"stored", "taken"} \subseteq DOMAIN hist /\ hist.stored = <<>> /\ hist.taken = <<>>
  BY DEF Keyboard!Init
<1>3. RingIndices
  <2>1. 0 \in Index /\ 0 \in Byte /\ 170 \in Byte
    BY KeysAssumption DEF Index, Byte
  <2>2. buffer \in [Index -> Byte]
    BY <1>1, <2>1 DEF Index
  <2>3. wire \in Seq(Byte)
    BY <1>1, <2>1
  <2> QED BY <1>1, <2>1, <2>2, <2>3 DEF RingIndices
<1>4. Histories
  BY <1>2 DEF Histories
<1>5. Keyboard!RingIsFifo
  <2>1. (write_idx - read_idx) % RingSize = 0
    BY <1>1, KeysAssumption
  <2>2. Keyboard!Held = <<>>
    BY <2>1 DEF Keyboard!Held
  <2> QED BY <1>2, <2>2 DEF Keyboard!RingIsFifo
<1> QED BY <1>3, <1>4, <1>5 DEF KeyRing

\* A step that leaves the ring and its history alone.
LEMMA KeyRingAlone ==
  ASSUME KeyRing, UNCHANGED <<buffer, read_idx, write_idx>>, wire' \in Seq(Byte),
         {"at", "own", "byte"} \subseteq DOMAIN bh',
         bh'.at = "loaded" => read_idx # write_idx /\ bh'.byte = buffer[read_idx],
         {"stored", "taken"} \subseteq DOMAIN hist',
         hist'.stored = hist.stored, hist'.taken = hist.taken
  PROVE  KeyRing'
<1>1. RingIndices'
  BY DEF KeyRing, RingIndices
<1>2. Histories'
  BY DEF KeyRing, Histories
<1>3. Keyboard!Held' = Keyboard!Held
  BY DEF Keyboard!Held
<1>4. Keyboard!RingIsFifo'
  BY <1>3 DEF KeyRing, Keyboard!RingIsFifo
<1> QED BY <1>1, <1>2, <1>4 DEF KeyRing

\* The top half appends to the ring, or leaves it alone; it never touches a byte that
\* is held, also not the one that the bottom half is about to take.
LEMMA KeyRingInterrupt == KeyRing /\ Keyboard!Interrupt => KeyRing'
<1> SUFFICES ASSUME KeyRing, Keyboard!Interrupt PROVE KeyRing'
  OBVIOUS
<1>0. RingIndices /\ Histories /\ Keyboard!RingIsFifo
  BY DEF KeyRing
<1>1. PICK b : b = Head(wire)
  OBVIOUS
<1>2. wire # <<>> /\ wire' = Tail(wire) /\ Keyboard!ps2_top_irq(b) /\ read_idx' = read_idx
  BY <1>1 DEF Keyboard!Interrupt
<1>3. wire' \in Seq(Byte) /\ b \in Byte
  BY <1>0, <1>1, <1>2 DEF RingIndices
<1>4. /\ {"at", "own", "byte"} \subseteq DOMAIN bh' /\ bh'.byte = bh.byte
      /\ bh'.at = "loaded" => bh.at = "loaded"
  BY <1>0 DEF Keyboard!Interrupt, RingIndices
<1>5. CASE UNCHANGED <<buffer, write_idx>> /\ (hist' = hist \/ hist' = [hist EXCEPT !.dropped = TRUE])
  <2>1. /\ {"stored", "taken"} \subseteq DOMAIN hist'
        /\ hist'.stored = hist.stored /\ hist'.taken = hist.taken
    BY <1>0, <1>5 DEF Histories
  <2>2. bh'.at = "loaded" => read_idx # write_idx /\ bh'.byte = buffer[read_idx]
    BY <1>0, <1>4 DEF RingIndices
  <2> QED BY <1>2, <1>3, <1>4, <1>5, <2>1, <2>2, KeyRingAlone
<1>6. CASE /\ (write_idx + 1) % RingSize # read_idx
           /\ buffer' = [buffer EXCEPT ![write_idx] = b]
           /\ write_idx' = (write_idx + 1) % RingSize
           /\ hist' = [hist EXCEPT !.stored = Append(@, b)]
  <2>1. PICK h : h = RingHeld(RingSize, buffer, read_idx, write_idx)
    OBVIOUS
  <2>2. /\ h \in Seq(Byte)
        /\ RingHeld(RingSize, buffer', read_idx, write_idx') = Append(h, b)
    <3>1. /\ RingSize \in Nat \ {0} /\ buffer \in [0 .. RingSize - 1 -> Byte]
          /\ read_idx \in 0 .. RingSize - 1 /\ write_idx \in 0 .. RingSize - 1
      BY <1>0, KeysAssumption DEF RingIndices, Index
    <3>2. PICK v : v = (write_idx + 1) % RingSize
      OBVIOUS
    <3>3. v # read_idx
      BY <1>6, <3>2
    <3>4. HoldsMore(Byte, RingSize, buffer, read_idx, write_idx, v, b)
      BY <1>3, <3>1, <3>2, <3>3, RingHeldStored
    <3> QED BY <1>6, <2>1, <3>2, <3>4 DEF HoldsMore
  <2>3. /\ {"stored", "taken"} \subseteq DOMAIN hist'
        /\ hist'.stored = Append(hist.stored, b) /\ hist'.taken = hist.taken
    BY <1>0, <1>6 DEF Histories
  <2>4. Histories'
    BY <1>0, <1>3, <2>3 DEF Histories
  <2>5. hist.stored = hist.taken \o h
    BY <1>0, <2>1, HeldIs DEF Keyboard!RingIsFifo
  <2>6. Append(hist.taken \o h, b) = hist.taken \o Append(h, b)
    <3>1. hist.taken \in Seq(Byte)
      BY <1>0 DEF Histories
    <3>2. PICK s : s = hist.taken
      OBVIOUS
    <3>3. s \in Seq(Byte) /\ h \in Seq(Byte) /\ b \in Byte
      BY <1>3, <2>2, <3>1, <3>2
    <3>4. AppendsLast(s, h, b)
      BY <3>3, AppendLast
    <3> QED BY <3>2, <3>4 DEF AppendsLast
  <2>7. hist'.stored = hist'.taken \o Append(h, b)
    BY <2>3, <2>5, <2>6
  <2>8. Keyboard!Held' = Append(h, b)
    BY <1>2, <2>2, HeldIs DEF Keyboard!Held, RingHeld
  <2>9. Keyboard!RingIsFifo'
    BY <2>7, <2>8 DEF Keyboard!RingIsFifo
  <2>10. RingIndices'
    <3>1. write_idx' \in Index /\ buffer' \in [Index -> Byte] /\ read_idx' \in Index
      BY <1>0, <1>2, <1>3, <1>6, KeysAssumption DEF RingIndices, Index
    <3>2. read_idx # write_idx => buffer'[read_idx] = buffer[read_idx]
      BY <1>0, <1>6 DEF RingIndices
    <3>3. bh'.at = "loaded" => read_idx' # write_idx' /\ bh'.byte = buffer'[read_idx']
      BY <1>0, <1>2, <1>4, <1>6, <3>2 DEF RingIndices
    <3> QED BY <1>3, <1>4, <3>1, <3>3 DEF RingIndices
  <2> QED BY <2>4, <2>9, <2>10 DEF KeyRing
<1> QED BY <1>2, <1>5, <1>6 DEF Keyboard!ps2_top_irq, Keyboard!RingFull, Keyboard!ring

\* The bottom half takes the byte it has read, which is still the oldest one.
LEMMA KeyRingAdvance == KeyRing /\ Keyboard!Advance => KeyRing'
<1> SUFFICES ASSUME KeyRing, Keyboard!Advance PROVE KeyRing'
  OBVIOUS
<1>0. RingIndices /\ Histories /\ Keyboard!RingIsFifo
  BY DEF KeyRing
<1>1. /\ bh.at = "loaded" /\ read_idx' = (read_idx + 1) % RingSize
      /\ hist' = [hist EXCEPT !.taken = Append(@, bh.byte)]
      /\ bh' = [bh EXCEPT !.at = "send"]
      /\ UNCHANGED <<buffer, write_idx, wire>>
  BY DEF Keyboard!Advance, Keyboard!ring
<1>2. read_idx # write_idx /\ bh.byte = buffer[read_idx] /\ bh.byte \in Byte
  BY <1>0, <1>1 DEF RingIndices
<1>3. PICK h : h = RingHeld(RingSize, buffer, read_idx', write_idx)
  OBVIOUS
<1>4. /\ h \in Seq(Byte)
      /\ RingHeld(RingSize, buffer, read_idx, write_idx) = <<bh.byte>> \o h
  <2>1. /\ RingSize \in Nat \ {0} /\ buffer \in [0 .. RingSize - 1 -> Byte]
        /\ read_idx \in 0 .. RingSize - 1 /\ write_idx \in 0 .. RingSize - 1
    BY <1>0, KeysAssumption DEF RingIndices, Index
  <2>2. PICK s : s = (read_idx + 1) % RingSize
    OBVIOUS
  <2>3. HoldsLess(Byte, RingSize, buffer, read_idx, write_idx, s)
    BY <1>2, <2>1, <2>2, RingHeldTaken
  <2> QED BY <1>1, <1>2, <1>3, <2>2, <2>3 DEF HoldsLess
<1>5. /\ {"stored", "taken"} \subseteq DOMAIN hist'
      /\ hist'.stored = hist.stored /\ hist'.taken = Append(hist.taken, bh.byte)
  BY <1>0, <1>1 DEF Histories
<1>6. Histories'
  BY <1>0, <1>2, <1>5 DEF Histories
<1>7. hist.stored = hist.taken \o (<<bh.byte>> \o h)
  BY <1>0, <1>4, HeldIs DEF Keyboard!RingIsFifo
<1>8. Append(hist.taken, bh.byte) \o h = hist.taken \o (<<bh.byte>> \o h)
  BY <1>0, <1>2, <1>4 DEF Histories
<1>9. Keyboard!Held' = h
  BY <1>1, <1>3 DEF Keyboard!Held, RingHeld
<1>10. Keyboard!RingIsFifo'
  BY <1>5, <1>7, <1>8, <1>9 DEF Keyboard!RingIsFifo
<1>11. RingIndices'
  <2>1. read_idx' \in Index
    BY <1>0, <1>1, KeysAssumption DEF RingIndices, Index
  <2> QED BY <1>0, <1>1, <2>1 DEF RingIndices
<1> QED BY <1>6, <1>10, <1>11 DEF KeyRing

\* No other step of the halves, the driver or the keyboard changes the ring.
LEMMA KeyRingStep == KeyRing /\ [Keyboard!Next]_keyboardVars => KeyRing'
<1> SUFFICES ASSUME KeyRing, [Keyboard!Next]_keyboardVars PROVE KeyRing'
  OBVIOUS
<1>0. /\ wire \in Seq(Byte) /\ {"at", "own", "byte"} \subseteq DOMAIN bh
      /\ bh.at = "loaded" => read_idx # write_idx /\ bh.byte = buffer[read_idx]
      /\ {"stored", "taken"} \subseteq DOMAIN hist
  BY DEF KeyRing, RingIndices, Histories
<1>1. CASE Keyboard!PressKey
  <2>1. PICK s \in Strokes :
           /\ wire' = wire \o s.bytes
           /\ hist' = [hist EXCEPT !.meant = @ \o s.keys, !.strokes = @ + 1]
    BY <1>1 DEF Keyboard!PressKey
  <2>2. s.bytes \in Seq(Byte)
    BY KeysAssumption DEF Byte
  <2>3. wire' \in Seq(Byte)
    BY <1>0, <2>1, <2>2
  <2>4. UNCHANGED <<buffer, read_idx, write_idx, bh>>
    BY <1>1 DEF Keyboard!PressKey, Keyboard!ring
  <2>5. /\ {"stored", "taken"} \subseteq DOMAIN hist'
        /\ hist'.stored = hist.stored /\ hist'.taken = hist.taken
    BY <1>0, <2>1
  <2> QED BY <1>0, <2>3, <2>4, <2>5, KeyRingAlone
<1>2. CASE Keyboard!Answer
  <2>1. wire' = Append(wire, 254) \/ wire' = Append(wire, 250)
    BY <1>2 DEF Keyboard!Answer, Keyboard!Resend, Keyboard!Ack
  <2>2. wire' \in Seq(Byte)
    <3>1. 254 \in Byte /\ 250 \in Byte
      BY DEF Byte
    <3> QED BY <1>0, <2>1, <3>1
  <2>3. UNCHANGED <<buffer, read_idx, write_idx, bh>>
    BY <1>2 DEF Keyboard!Answer, Keyboard!ring
  <2>4. hist' = hist \/ \E n : hist' = [hist EXCEPT !.resends = n]
    BY <1>2 DEF Keyboard!Answer
  <2>5. /\ {"stored", "taken"} \subseteq DOMAIN hist'
        /\ hist'.stored = hist.stored /\ hist'.taken = hist.taken
    BY <1>0, <2>4
  <2> QED BY <1>0, <2>2, <2>3, <2>5, KeyRingAlone
<1>3. CASE Keyboard!Interrupt
  BY <1>3, KeyRingInterrupt
<1>4. CASE Keyboard!NextBottomHalf
  <2>1. UNCHANGED <<buffer, read_idx, write_idx, wire, hist>>
    BY <1>4 DEF Keyboard!NextBottomHalf, Keyboard!ring
  <2>2. {"at", "own", "byte"} \subseteq DOMAIN bh' /\ bh'.at # "loaded"
    <3>1. \E b \in BOOLEAN, p \in {"drain", "start", "idle"} :
             bh' = [bh EXCEPT !.at = p] \/ bh' = [bh EXCEPT !.at = p, !.own = b]
      BY <1>4 DEF Keyboard!NextBottomHalf
    <3> QED BY <1>0, <3>1
  <2> QED BY <1>0, <2>1, <2>2, KeyRingAlone
<1>5. CASE Keyboard!BottomStart
  <2>1. UNCHANGED <<buffer, read_idx, write_idx, wire, hist>>
    BY <1>5 DEF Keyboard!BottomStart
  <2>2. {"at", "own", "byte"} \subseteq DOMAIN bh' /\ bh'.at # "loaded"
    BY <1>0, <1>5 DEF Keyboard!BottomStart
  <2> QED BY <1>0, <2>1, <2>2, KeyRingAlone
<1>6. CASE Keyboard!Load
  <2>1. UNCHANGED <<buffer, read_idx, write_idx, wire, hist>>
    BY <1>6 DEF Keyboard!Load, Keyboard!ring
  <2>2. /\ {"at", "own", "byte"} \subseteq DOMAIN bh'
        /\ bh'.at = "loaded" => read_idx # write_idx /\ bh'.byte = buffer[read_idx]
    BY <1>0, <1>6 DEF Keyboard!Load
  <2> QED BY <1>0, <2>1, <2>2, KeyRingAlone
<1>7. CASE Keyboard!Advance
  BY <1>7, KeyRingAdvance
<1>8. CASE Keyboard!Send
  <2>1. UNCHANGED <<buffer, read_idx, write_idx, wire>> /\ bh.at = "send"
    BY <1>8 DEF Keyboard!Send, Keyboard!ring
  <2>2. {"at", "own", "byte"} \subseteq DOMAIN bh' /\ bh'.at # "loaded"
    BY <1>0, <1>8 DEF Keyboard!Send
  <2>3. /\ {"stored", "taken"} \subseteq DOMAIN hist'
        /\ hist'.stored = hist.stored /\ hist'.taken = hist.taken
    BY <1>0, <1>8 DEF Keyboard!Send, Keyboard!ps2_keyboard_send
  <2> QED BY <1>0, <2>1, <2>2, <2>3, KeyRingAlone
<1>9. CASE Keyboard!InitBuses
  <2>1. UNCHANGED <<buffer, read_idx, write_idx, wire, hist, bh>>
    BY <1>9 DEF Keyboard!InitBuses, Keyboard!ring
  <2> QED BY <1>0, <2>1, KeyRingAlone
<1>10. CASE UNCHANGED keyboardVars
  <2>1. UNCHANGED <<buffer, read_idx, write_idx, wire, hist, bh>>
    BY <1>10 DEF keyboardVars
  <2> QED BY <1>0, <2>1, KeyRingAlone
<1> QED BY <1>1, <1>2, <1>3, <1>4, <1>5, <1>6, <1>7, <1>8, <1>9, <1>10 DEF Keyboard!Next

\* Whatever its size and however the halves of the interrupt interleave, the scan code
\* ring of ps2.c is a queue: the bottom half takes the bytes that the top half stored,
\* in their order, none lost, doubled or overwritten.
THEOREM ScanCodesInOrder == InputSpec => []Keyboard!RingIsFifo
<1>1. InputInit => KeyRing
  BY KeyRingInitial DEF InputInit
<1>2. KeyRing /\ [InputNext]_allVars => KeyRing'
  <2>1. [InputNext]_allVars => [Keyboard!Next]_keyboardVars
    BY DEF InputNext, allVars
  <2> QED BY <2>1, KeyRingStep
<1>3. KeyRing => Keyboard!RingIsFifo
  BY DEF KeyRing
<1> QED BY <1>1, <1>2, <1>3, PTL DEF InputSpec

-----------------------------------------------------------------------------
(* The terminal that is subscribed.                                          *)

\* The links of the list whose head is n, with c as its only entry (-1: with none).
PairedWith(n, c) == [e \in 0 .. n |-> IF e = n /\ c # -1 THEN c ELSE IF e = c THEN n ELSE e]
Paired(n, c) == [next |-> PairedWith(n, c), prev |-> PairedWith(n, c)]

\* Entries that are not in a list.
LEMMA PairedNone ==
  ASSUME NEW n \in Nat
  PROVE  Terminal!Single((0 .. n - 1) \cup {n}) = Paired(n, -1)
<1>1. (0 .. n - 1) \cup {n} = 0 .. n
  OBVIOUS
<1>2. PairedWith(n, -1) = [e \in 0 .. n |-> e]
  BY DEF PairedWith
<1> QED BY <1>1, <1>2 DEF Terminal!Single, Paired

\* Taking the only entry of the list out of it.
LEMMA PairedRemoved ==
  ASSUME NEW n \in Nat, NEW c \in 0 .. n - 1
  PROVE  Terminal!list_entry_remove(Paired(n, c), c) = Paired(n, -1)
<1>1. PICK f : f = PairedWith(n, c)
  OBVIOUS
<1>2. PICK g : g = PairedWith(n, -1)
  OBVIOUS
<1>3. /\ f = [e \in 0 .. n |-> IF e = n THEN c ELSE IF e = c THEN n ELSE e]
      /\ c \in 0 .. n /\ n \in 0 .. n /\ c # n
  BY <1>1 DEF PairedWith
<1>4. g = [e \in 0 .. n |-> e]
  BY <1>2 DEF PairedWith
<1>5. f[c] = n /\ [f EXCEPT ![n] = n][c] = n
  BY <1>3
<1>6. [[f EXCEPT ![n] = n] EXCEPT ![c] = c] = g
  BY <1>3, <1>4
<1>7. PICK h : h = [f EXCEPT ![n] = n]
  OBVIOUS
<1>8. Paired(n, c) = [next |-> f, prev |-> f]
  BY <1>1 DEF Paired
<1>9. Terminal!SetNext([next |-> f, prev |-> f], n, n) = [next |-> h, prev |-> f]
  BY <1>7 DEF Terminal!SetNext
<1>10. Terminal!SetPrev([next |-> h, prev |-> f], n, n) = [next |-> h, prev |-> h]
  BY <1>7 DEF Terminal!SetPrev
<1>15. [h EXCEPT ![c] = c] = g
  BY <1>6, <1>7
<1>11. Terminal!SetPrev([next |-> h, prev |-> h], c, c) = [next |-> h, prev |-> g]
  BY <1>15 DEF Terminal!SetPrev
<1>12. Terminal!SetNext([next |-> h, prev |-> g], c, c) = [next |-> g, prev |-> g]
  BY <1>15 DEF Terminal!SetNext
<1>13. h[c] = n
  BY <1>5, <1>7
<1>14. Paired(n, -1) = [next |-> g, prev |-> g]
  BY <1>2 DEF Paired
<1> QED BY <1>5, <1>8, <1>9, <1>10, <1>11, <1>12, <1>13, <1>14 DEF Terminal!list_entry_remove

\* Adding an entry to the empty list.
LEMMA PairedAdded ==
  ASSUME NEW n \in Nat, NEW c \in 0 .. n - 1
  PROVE  Terminal!list_add_last(Paired(n, -1), n, c) = Paired(n, c)
<1>1. PICK f : f = PairedWith(n, c)
  OBVIOUS
<1>2. PICK g : g = PairedWith(n, -1)
  OBVIOUS
<1>3. /\ f = [e \in 0 .. n |-> IF e = n THEN c ELSE IF e = c THEN n ELSE e]
      /\ c \in 0 .. n /\ n \in 0 .. n /\ c # n
  BY <1>1 DEF PairedWith
<1>4. g = [e \in 0 .. n |-> e]
  BY <1>2 DEF PairedWith
<1>5. g[n] = n /\ [[g EXCEPT ![n] = c] EXCEPT ![c] = n] = f
      /\ [[g EXCEPT ![c] = n] EXCEPT ![n] = c] = f
  BY <1>3, <1>4
<1>6. Paired(n, -1) = [next |-> g, prev |-> g]
  BY <1>2 DEF Paired
<1>7. PICK p : p = [g EXCEPT ![n] = c]
  OBVIOUS
<1>8. PICK q : q = [g EXCEPT ![c] = n]
  OBVIOUS
<1>9. Terminal!SetPrev([next |-> g, prev |-> g], n, c) = [next |-> g, prev |-> p]
  BY <1>7 DEF Terminal!SetPrev
<1>10. Terminal!SetNext([next |-> g, prev |-> p], c, n) = [next |-> q, prev |-> p]
  BY <1>8 DEF Terminal!SetNext
<1>14. [p EXCEPT ![c] = n] = f /\ [q EXCEPT ![n] = c] = f
  BY <1>5, <1>7, <1>8
<1>11. Terminal!SetNext([next |-> q, prev |-> p], n, c) = [next |-> f, prev |-> p]
  BY <1>14 DEF Terminal!SetNext
<1>12. Terminal!SetPrev([next |-> f, prev |-> p], c, n) = [next |-> f, prev |-> f]
  BY <1>14 DEF Terminal!SetPrev
<1>13. Paired(n, c) = [next |-> f, prev |-> f]
  BY <1>1 DEF Paired
<1>15. Terminal!list_add_last(Paired(n, -1), n, c)
         = Terminal!list_entry_append_single_element([next |-> g, prev |-> g], n, c)
  BY <1>5, <1>6 DEF Terminal!list_add_last
<1>16. Terminal!list_entry_append_single_element([next |-> g, prev |-> g], n, c)
         = [next |-> f, prev |-> f]
  BY <1>5, <1>9, <1>10, <1>11, <1>12 DEF Terminal!list_entry_append_single_element
<1> QED BY <1>13, <1>15, <1>16

\* The current terminal, and no other, is subscribed, and the lights are its lights.
Subscribed ==
    /\ num_ttys \in 0 .. NumTtys
    /\ current_tty \in {-1} \cup 0 .. num_ttys - 1
    /\ num_ttys # 0 => current_tty # -1
    /\ DOMAIN tty = 0 .. NumTtys - 1
    /\ \A t \in DOMAIN tty : "leds" \in DOMAIN tty[t]
    /\ links = Paired(NumTtys, current_tty)
    /\ current_tty # -1 => leds = tty[current_tty].leds
    /\ event # Terminal!NoEvent => event \in Events /\ current_tty # -1

\* A step that leaves the lights of every terminal alone.
SameLeds ==
    /\ DOMAIN tty' = DOMAIN tty
    /\ \A t \in DOMAIN tty : "leds" \in DOMAIN tty'[t] /\ tty'[t].leds = tty[t].leds

\* The terminals before the displays are added.
LEMMA SubscribedInitial == Terminal!Init => Subscribed
<1> SUFFICES ASSUME Terminal!Init PROVE Subscribed
  OBVIOUS
<1>1. links = Paired(NumTtys, -1)
  BY PairedNone, TerminalsAssumption DEF Terminal!Init, Terminal!Ttys, Terminal!Queue
<1>2. /\ DOMAIN tty = 0 .. NumTtys - 1
      /\ \A t \in DOMAIN tty : "leds" \in DOMAIN tty[t]
  BY DEF Terminal!Init, Terminal!Ttys
<1>3. num_ttys = 0 /\ current_tty = -1 /\ event = Terminal!NoEvent
  BY DEF Terminal!Init, Terminal!NULL
<1> QED BY <1>1, <1>2, <1>3, TerminalsAssumption DEF Subscribed

\* A step that does not switch and changes no lights.
LEMMA SubscribedAlone ==
  ASSUME Subscribed, UNCHANGED <<num_ttys, current_tty, links, leds>>, SameLeds,
         event' # Terminal!NoEvent => event' \in Events /\ current_tty # -1
  PROVE  Subscribed'
<1>1. current_tty # -1 => current_tty \in DOMAIN tty
  BY TerminalsAssumption DEF Subscribed
<1>2. current_tty # -1 => leds' = tty'[current_tty].leds
  BY <1>1 DEF Subscribed, SameLeds
<1>3. DOMAIN tty' = 0 .. NumTtys - 1 /\ \A t \in DOMAIN tty' : "leds" \in DOMAIN tty'[t]
  BY DEF Subscribed, SameLeds
<1> QED BY <1>2, <1>3 DEF Subscribed, Terminal!NoEvent

\* The first terminal becomes the current one.
LEMMA SubscribedAttach == Subscribed /\ Terminal!tty_attach => Subscribed'
<1> SUFFICES ASSUME Subscribed, Terminal!tty_attach PROVE Subscribed'
  OBVIOUS
<1>1. /\ num_ttys < NumTtys /\ num_ttys' = num_ttys + 1
      /\ UNCHANGED <<tty, event>>
  BY DEF Terminal!tty_attach
<1>2. CASE num_ttys = 0
  <2>1. current_tty' = 0 /\ leds' = tty[0].leds /\ current_tty = -1
    BY <1>2 DEF Terminal!tty_attach, Subscribed
  <2>2. links' = Terminal!list_add_last(Paired(NumTtys, -1), NumTtys, 0)
    BY <1>2, <2>1 DEF Terminal!tty_attach, Subscribed, Terminal!Queue
  <2>3. links' = Paired(NumTtys, 0)
    <3>1. NumTtys \in Nat /\ 0 \in 0 .. NumTtys - 1
      BY <1>1, <1>2, TerminalsAssumption
    <3> QED BY <2>2, <3>1, PairedAdded
  <2> QED BY <1>1, <1>2, <2>1, <2>3, TerminalsAssumption DEF Subscribed, Terminal!NoEvent
<1>3. CASE num_ttys # 0
  <2>1. UNCHANGED <<current_tty, links, leds>>
    BY <1>3 DEF Terminal!tty_attach
  <2> QED BY <1>1, <1>3, <2>1, TerminalsAssumption DEF Subscribed, Terminal!NoEvent
<1> QED BY <1>2, <1>3

\* tty_switch() takes the old terminal out and puts the new one in, which may be the same.
LEMMA SubscribedSwitch ==
  ASSUME Subscribed, current_tty # -1, NEW i \in Nat, Terminal!tty_switch(i),
         UNCHANGED <<num_ttys, tty>>, event' \in {event, Terminal!NoEvent}
  PROVE  Subscribed'
<1>1. CASE i >= num_ttys
  <2>1. UNCHANGED <<current_tty, links, leds>>
    BY <1>1 DEF Terminal!tty_switch
  <2> QED BY <2>1 DEF Subscribed, Terminal!NoEvent
<1>2. CASE ~(i >= num_ttys)
  <2>1. current_tty' = i /\ leds' = tty[i].leds
    BY <1>2 DEF Terminal!tty_switch
  <2>2. i \in 0 .. NumTtys - 1 /\ current_tty \in 0 .. NumTtys - 1 /\ i \in 0 .. num_ttys - 1
        /\ NumTtys \in Nat
    BY <1>2, TerminalsAssumption DEF Subscribed
  <2>3. links' = Terminal!list_add_last(
                    Terminal!list_entry_remove(Paired(NumTtys, current_tty), current_tty), NumTtys, i)
    BY <1>2 DEF Terminal!tty_switch, Subscribed, Terminal!Queue, Terminal!NULL
  <2>4. links' = Paired(NumTtys, i)
    BY <2>2, <2>3, PairedRemoved, PairedAdded
  <2> QED BY <2>1, <2>2, <2>4 DEF Subscribed, Terminal!NoEvent
<1> QED BY <1>1, <1>2

\* tty_append_char() changes no lights.
LEMMA AppendKeepsLeds ==
  ASSUME NEW y, NEW c, "leds" \in DOMAIN y
  PROVE  /\ "leds" \in DOMAIN Terminal!tty_append_char(y, c)
         /\ Terminal!tty_append_char(y, c).leds = y.leds
BY DEF Terminal!tty_append_char

\* The handler of an event.
LEMMA SubscribedDeliver == Subscribed /\ Terminal!Deliver => Subscribed'
<1> SUFFICES ASSUME Subscribed, Terminal!Deliver PROVE Subscribed'
  OBVIOUS
<1>1. /\ event \in Events /\ current_tty # -1 /\ event' \in {event, Terminal!NoEvent}
      /\ Terminal!on_events_received(event) /\ num_ttys' = num_ttys
  BY DEF Subscribed, Terminal!Deliver
<1>2. PICK y : y = tty[current_tty]
  OBVIOUS
<1>3. current_tty \in DOMAIN tty /\ "leds" \in DOMAIN y /\ leds = y.leds
  BY <1>1, <1>2, TerminalsAssumption DEF Subscribed
<1>4. event' # Terminal!NoEvent => event' \in Events /\ current_tty # -1
  BY <1>1
<1>5. CASE Terminal!LockKey(y, event)
  <2>1. UNCHANGED <<current_tty, links>>
    BY <1>5 DEF Terminal!LockKey
  <2>2. CASE UNCHANGED <<tty, leds>>
    BY <1>1, <2>1, <2>2 DEF Subscribed, Terminal!NoEvent
  <2>3. CASE \E l : tty' = [tty EXCEPT ![current_tty].leds = l] /\ leds' = l
    <3>1. PICK l : tty' = [tty EXCEPT ![current_tty].leds = l] /\ leds' = l
      BY <2>3
    <3>2. DOMAIN tty' = DOMAIN tty /\ tty'[current_tty].leds = leds'
          /\ \A t \in DOMAIN tty : "leds" \in DOMAIN tty'[t]
      BY <1>2, <1>3, <3>1 DEF Subscribed
    <3> QED BY <1>1, <2>1, <3>2 DEF Subscribed, Terminal!NoEvent
  <2> QED BY <1>5, <2>2, <2>3 DEF Terminal!LockKey
<1>6. CASE Terminal!ModifierKey(y, event)
  <2>1. UNCHANGED <<current_tty, links, leds>>
    BY <1>6 DEF Terminal!ModifierKey
  <2>2. SameLeds
    BY <1>6 DEF Terminal!ModifierKey, Subscribed, SameLeds
  <2> QED BY <1>1, <1>4, <2>1, <2>2, SubscribedAlone
<1>7. CASE event[1] = "function" /\ Terminal!FunctionKey(y, event)
  <2>1. event[2] \in Nat /\ tty' = tty
    BY <1>1, <1>7, TerminalsAssumption DEF Terminal!FunctionKey
  <2>2. CASE Terminal!tty_switch(event[2])
    BY <1>1, <2>1, <2>2, SubscribedSwitch
  <2>3. CASE UNCHANGED <<current_tty, links, leds>>
    BY <1>1, <2>1, <2>3 DEF Subscribed, Terminal!NoEvent
  <2> QED BY <1>7, <2>2, <2>3 DEF Terminal!FunctionKey
<1>8. CASE Terminal!EnterKey(y)
  <2>1. UNCHANGED <<current_tty, links, leds>>
    BY <1>8 DEF Terminal!EnterKey
  <2>2. PICK z : z = Terminal!tty_append_char(y, Terminal!Newline)
    OBVIOUS
  <2>3. "leds" \in DOMAIN z /\ z.leds = y.leds
    BY <1>3, <2>2, AppendKeepsLeds
  <2>4. tty' = tty \/ tty' = [tty EXCEPT ![current_tty] =
                                [z EXCEPT !.commit = z.write, !.waiting = Terminal!NULL]]
    BY <1>8, <2>2 DEF Terminal!EnterKey
  <2>5. SameLeds
    BY <1>2, <1>3, <2>3, <2>4 DEF Subscribed, SameLeds
  <2> QED BY <1>1, <1>4, <2>1, <2>5, SubscribedAlone
<1>9. CASE Terminal!BackspaceKey(y)
  <2>1. UNCHANGED <<current_tty, links, leds>>
    BY <1>9 DEF Terminal!BackspaceKey
  <2>2. SameLeds
    <3>1. tty' = tty \/ \E v : tty' = [tty EXCEPT ![current_tty].write = v]
      BY <1>9 DEF Terminal!BackspaceKey
    <3> QED BY <3>1 DEF Subscribed, SameLeds
  <2> QED BY <1>1, <1>4, <2>1, <2>2, SubscribedAlone
<1>10. CASE Terminal!AppendKey(y, event[2])
  <2>1. UNCHANGED <<current_tty, links, leds>>
    BY <1>10 DEF Terminal!AppendKey
  <2>2. PICK z : z = Terminal!tty_append_char(y, event[2])
    OBVIOUS
  <2>3. "leds" \in DOMAIN z /\ z.leds = y.leds
    BY <1>3, <2>2, AppendKeepsLeds
  <2>4. tty' = [tty EXCEPT ![current_tty] = z]
    BY <1>10, <2>2 DEF Terminal!AppendKey
  <2>5. SameLeds
    BY <1>2, <1>3, <2>3, <2>4 DEF Subscribed, SameLeds
  <2> QED BY <1>1, <1>4, <2>1, <2>5, SubscribedAlone
<1>11. CASE UNCHANGED <<tty, current_tty, links, leds>>
  BY <1>1, <1>11 DEF Subscribed, Terminal!NoEvent
<1> QED BY <1>1, <1>2, <1>5, <1>6, <1>7, <1>8, <1>9, <1>10, <1>11 DEF Terminal!on_events_received

\* An event is sent only while a terminal is subscribed.
LEMMA SubscribedSend ==
  ASSUME Subscribed, NEW e \in Events, Terminal!input_manager_send_event(e)
  PROVE  Subscribed'
<1>1. UNCHANGED <<tty, num_ttys, current_tty, links, leds>>
  BY DEF Terminal!input_manager_send_event
<1>2. CASE event' = event
  BY <1>1, <1>2 DEF Subscribed, Terminal!NoEvent
<1>3. CASE event' = e /\ ~Terminal!LIST_EMPTY(links, NumTtys)
  <2>1. links.next[NumTtys] # NumTtys
    BY <1>3 DEF Terminal!LIST_EMPTY
  <2>2. current_tty # -1
    <3>1. SUFFICES ASSUME current_tty = -1 PROVE FALSE
      OBVIOUS
    <3>2. links.next[NumTtys] = PairedWith(NumTtys, -1)[NumTtys]
      BY <3>1 DEF Subscribed, Paired
    <3> QED BY <2>1, <3>2, TerminalsAssumption DEF PairedWith
  <2> QED BY <1>1, <1>3, <2>2 DEF Subscribed
<1> QED BY <1>2, <1>3 DEF Terminal!input_manager_send_event, Terminal!Queue

\* Every step of the terminals.
LEMMA SubscribedStep == Subscribed /\ [Terminal!Next]_ttyVars => Subscribed'
<1> SUFFICES ASSUME Subscribed, [Terminal!Next]_ttyVars PROVE Subscribed'
  OBVIOUS
<1>0. event # Terminal!NoEvent => event \in Events /\ current_tty # -1
  BY DEF Subscribed
<1>1. CASE Terminal!Deliver
  BY <1>1, SubscribedDeliver
<1>2. CASE Terminal!tty_attach
  BY <1>2, SubscribedAttach
<1>3. CASE \E e \in Events : Terminal!input_manager_send_event(e)
  BY <1>3, SubscribedSend
<1>4. ASSUME NEW k \in Tasks, NEW t \in Terminal!Ttys, NEW o \in {"R", "W", "RW"},
             Terminal!Open(k, t, o)
      PROVE  Subscribed'
  <2>1. UNCHANGED <<num_ttys, current_tty, links, event, leds>>
    BY <1>4 DEF Terminal!Open, Terminal!input
  <2>2. tty' = tty \/ \E f : tty' = [tty EXCEPT ![t].opened = f, ![t].write = 0, ![t].read = 0]
    BY <1>4 DEF Terminal!Open, Terminal!tty_open
  <2>3. SameLeds
    <3>1. CASE tty' = tty
      BY <3>1 DEF Subscribed, SameLeds
    <3>2. ASSUME NEW f, tty' = [tty EXCEPT ![t].opened = f, ![t].write = 0, ![t].read = 0]
          PROVE  SameLeds
      <4>1. DOMAIN tty' = DOMAIN tty
        BY <3>2
      <4>2. \A u \in DOMAIN tty : u # t => tty'[u] = tty[u]
        BY <3>2
      <4>3. t \in DOMAIN tty => "leds" \in DOMAIN tty'[t] /\ tty'[t].leds = tty[t].leds
        BY <3>2 DEF Subscribed
      <4> QED BY <4>1, <4>2, <4>3 DEF Subscribed, SameLeds
    <3> QED BY <2>2, <3>1, <3>2
  <2> QED BY <1>0, <2>1, <2>3, SubscribedAlone
<1>5. ASSUME NEW k \in Tasks, Terminal!ReadRemember(k) \/ Terminal!ReadCopy(k)
      PROVE  Subscribed'
  <2>1. UNCHANGED <<num_ttys, current_tty, links, event, leds>>
    BY <1>5 DEF Terminal!ReadRemember, Terminal!ReadCopy, Terminal!input
  <2>2. PICK t, v : \/ tty' = [tty EXCEPT ![t].waiting = v]
                    \/ tty' = [tty EXCEPT ![t].read = v]
                    \/ tty' = [tty EXCEPT ![t].dropped = v]
    BY <1>5 DEF Terminal!ReadRemember, Terminal!ReadCopy
  <2>3. SameLeds
    <3>1. DOMAIN tty' = DOMAIN tty /\ \A u \in DOMAIN tty : u # t => tty'[u] = tty[u]
      BY <2>2
    <3>2. t \in DOMAIN tty => "leds" \in DOMAIN tty'[t] /\ tty'[t].leds = tty[t].leds
      BY <2>2 DEF Subscribed
    <3> QED BY <3>1, <3>2 DEF Subscribed, SameLeds
  <2> QED BY <1>0, <2>1, <2>3, SubscribedAlone
<1>6. ASSUME NEW k \in Tasks,
             \/ Terminal!Close(k) \/ Terminal!ReadTest(k) \/ Terminal!ReadBlock(k)
             \/ Terminal!WriteStart(k) \/ Terminal!WriteText(k) \/ Terminal!WriteEcho(k)
      PROVE  Subscribed'
  <2>1. UNCHANGED <<num_ttys, current_tty, links, event, leds, tty>>
    BY <1>6 DEF Terminal!Close, Terminal!ReadTest, Terminal!ReadBlock, Terminal!WriteStart,
                Terminal!WriteText, Terminal!WriteEcho, Terminal!input
  <2> QED BY <2>1 DEF Subscribed, Terminal!NoEvent
<1>7. CASE UNCHANGED ttyVars
  BY <1>7 DEF ttyVars, Subscribed, Terminal!NoEvent
<1> QED BY <1>1, <1>2, <1>3, <1>4, <1>5, <1>6, <1>7 DEF Terminal!Next

\* However many terminals there are, and whatever is typed on which of them: only the
\* current terminal gets input, and the keyboard shows its lights.
THEOREM TerminalFollowsSwitch == InputSpec => [](part # "switching" => Terminal!InputFollowsSwitch)
<1> DEFINE Inv == part # "switching" => Subscribed
<1>1. InputInit => Inv
  BY SubscribedInitial DEF InputInit
<1>2. Inv /\ [InputNext]_allVars => Inv'
  <2>1. [InputNext]_allVars /\ part # "switching" => [Terminal!Next]_ttyVars
    BY DEF InputNext, allVars
  <2>2. [InputNext]_allVars => part' = part
    BY DEF InputNext, allVars
  <2> QED BY <2>1, <2>2, SubscribedStep
<1>3. Inv => (part # "switching" => Terminal!InputFollowsSwitch)
  <2>1. SUFFICES ASSUME Subscribed, current_tty # -1
                 PROVE  /\ links.next[NumTtys] = current_tty /\ links.next[current_tty] = NumTtys
                        /\ leds = tty[current_tty].leds
    BY DEF Terminal!InputFollowsSwitch, Terminal!NULL, Terminal!Queue
  <2>2. current_tty \in 0 .. NumTtys - 1 /\ NumTtys \in Nat
    BY <2>1, TerminalsAssumption DEF Subscribed
  <2>3. links.next = PairedWith(NumTtys, current_tty)
    BY <2>1 DEF Subscribed, Paired
  <2> QED BY <2>1, <2>2, <2>3 DEF Subscribed, PairedWith
<1> QED BY <1>1, <1>2, <1>3, PTL DEF InputSpec

-----------------------------------------------------------------------------
(* A ring with three indices.                                                *)
\* The part from r to c and the part from c to w of a ring do not overlap.
InOrder(n, r, c, w) == ((c - r) % n) + ((w - c) % n) < n

\* Three indices of a ring of n places.
Indices(n, r, c, w) ==
    n \in Nat \ {0} /\ r \in 0 .. n - 1 /\ c \in 0 .. n - 1 /\ w \in 0 .. n - 1

\* The distance of two indices, as a number.
LEMMA Distance ==
  ASSUME NEW n \in Nat \ {0}, NEW x \in 0 .. n - 1, NEW y \in 0 .. n - 1
  PROVE  /\ (x - y) % n \in 0 .. n - 1
         /\ x >= y => (x - y) % n = x - y
         /\ ~(x >= y) => (x - y) % n = x - y + n
         /\ (x - y + n) % n = (x - y) % n
OBVIOUS

\* The next and the previous place.
LEMMA Neighbours ==
  ASSUME NEW n \in Nat \ {0}, NEW x \in 0 .. n - 1
  PROVE  /\ (x + 1) % n = IF x + 1 = n THEN 0 ELSE x + 1
         /\ (x - 1 + n) % n = IF x = 0 THEN n - 1 ELSE x - 1
OBVIOUS

\* The two parts together reach from r to w.
LEMMA PartsAdd ==
  ASSUME NEW n, NEW r, NEW c, NEW w, Indices(n, r, c, w), InOrder(n, r, c, w)
  PROVE  (w - r) % n = ((c - r) % n) + ((w - c) % n)
<1>0. n \in Nat \ {0} /\ r \in 0 .. n - 1 /\ c \in 0 .. n - 1 /\ w \in 0 .. n - 1
  BY DEF Indices
<1>1. PICK a : a = (c - r) % n
  OBVIOUS
<1>2. PICK b : b = (w - c) % n
  OBVIOUS
<1>3. PICK d : d = (w - r) % n
  OBVIOUS
<1>4. a + b < n
  BY <1>1, <1>2 DEF InOrder
<1>5. a = IF c >= r THEN c - r ELSE c - r + n
  BY <1>0, <1>1, Around
<1>6. b = IF w >= c THEN w - c ELSE w - c + n
  BY <1>0, <1>2, Around
<1>7. d = IF w >= r THEN w - r ELSE w - r + n
  BY <1>0, <1>3, Around
<1>8. d = a + b
  BY <1>0, <1>4, <1>5, <1>6, <1>7
<1> QED BY <1>1, <1>2, <1>3, <1>8, Zenon

\* The place after w is r exactly when the parts fill the ring.
LEMMA PartsFull ==
  ASSUME NEW n, NEW r, NEW c, NEW w, Indices(n, r, c, w), InOrder(n, r, c, w)
  PROVE  (w + 1) % n = r <=> ~(((c - r) % n) + ((w - c) % n) < n - 1)
<1>0. n \in Nat \ {0} /\ r \in 0 .. n - 1 /\ c \in 0 .. n - 1 /\ w \in 0 .. n - 1
  BY DEF Indices
<1>1. PICK d : d = (w - r) % n
  OBVIOUS
<1>2. d = ((c - r) % n) + ((w - c) % n)
  BY <1>1, PartsAdd
<1>3. d = IF w >= r THEN w - r ELSE w - r + n
  BY <1>0, <1>1, Around
<1>4. (w + 1) % n = IF w + 1 = n THEN 0 ELSE w + 1
  BY <1>0, Neighbours
<1>5. (w + 1) % n = r <=> ~(d < n - 1)
  BY <1>0, <1>3, <1>4
<1> QED BY <1>2, <1>5

\* The second part ends at v, and is not empty.
Grown(n, r, c, v) == Indices(n, r, c, v) /\ InOrder(n, r, c, v) /\ v # c

\* Room for one more at the end.
LEMMA PartsGrow ==
  ASSUME NEW n, NEW r, NEW c, NEW w, Indices(n, r, c, w), InOrder(n, r, c, w),
         NEW v, v = (w + 1) % n, v # r
  PROVE  Grown(n, r, c, v)
<1>0. n \in Nat \ {0} /\ r \in 0 .. n - 1 /\ c \in 0 .. n - 1 /\ w \in 0 .. n - 1
  BY DEF Indices
<1>1. PICK a : a = (c - r) % n
  OBVIOUS
<1>2. PICK b : b = (w - c) % n
  OBVIOUS
<1>4. a + b < n /\ (v = r <=> ~(a + b < n - 1))
  BY <1>1, <1>2, PartsFull DEF InOrder
<1>5. a = IF c >= r THEN c - r ELSE c - r + n
  BY <1>0, <1>1, Around
<1>6. b = IF w >= c THEN w - c ELSE w - c + n
  BY <1>0, <1>2, Around
<1>7. v = IF w + 1 = n THEN 0 ELSE w + 1
  BY <1>0, Neighbours
<1>8. v \in 0 .. n - 1
  BY <1>0, <1>7
<1>9. PICK e : e = (v - c) % n
  OBVIOUS
<1>10. e = IF v >= c THEN v - c ELSE v - c + n
  BY <1>0, <1>8, <1>9, Around
<1>11. a + e < n /\ v # c
  BY <1>0, <1>4, <1>5, <1>6, <1>7, <1>10
<1> QED BY <1>0, <1>1, <1>8, <1>9, <1>11 DEF Grown, Indices, InOrder

\* One less at the end.
LEMMA PartsShrink ==
  ASSUME NEW n, NEW r, NEW c, NEW w, Indices(n, r, c, w), InOrder(n, r, c, w), c # w,
         NEW v, v = (w - 1 + n) % n
  PROVE  Indices(n, r, c, v) /\ InOrder(n, r, c, v) /\ (w - c) % n = ((v - c) % n) + 1
<1>0. n \in Nat \ {0} /\ r \in 0 .. n - 1 /\ c \in 0 .. n - 1 /\ w \in 0 .. n - 1
  BY DEF Indices
<1>1. PICK a : a = (c - r) % n
  OBVIOUS
<1>2. PICK b : b = (w - c) % n
  OBVIOUS
<1>4. a + b < n
  BY <1>1, <1>2 DEF InOrder
<1>5. a = IF c >= r THEN c - r ELSE c - r + n
  BY <1>0, <1>1, Around
<1>6. b = IF w >= c THEN w - c ELSE w - c + n
  BY <1>0, <1>2, Around
<1>7. v = IF w = 0 THEN n - 1 ELSE w - 1
  BY <1>0, Neighbours
<1>8. v \in 0 .. n - 1
  BY <1>0, <1>7
<1>9. PICK e : e = (v - c) % n
  OBVIOUS
<1>10. e = IF v >= c THEN v - c ELSE v - c + n
  BY <1>0, <1>8, <1>9, Around
<1>11. a + e < n /\ b = e + 1
  BY <1>0, <1>4, <1>5, <1>6, <1>7, <1>10
<1> QED BY <1>0, <1>1, <1>2, <1>8, <1>9, <1>11 DEF Indices, InOrder

\* One less at the start.
LEMMA PartsTaken ==
  ASSUME NEW n, NEW r, NEW c, NEW w, Indices(n, r, c, w), InOrder(n, r, c, w), r # c,
         NEW s, s = (r + 1) % n
  PROVE  Indices(n, s, c, w) /\ InOrder(n, s, c, w)
<1>0. n \in Nat \ {0} /\ r \in 0 .. n - 1 /\ c \in 0 .. n - 1 /\ w \in 0 .. n - 1
  BY DEF Indices
<1>1. PICK a : a = (c - r) % n
  OBVIOUS
<1>2. PICK b : b = (w - c) % n
  OBVIOUS
<1>4. a + b < n
  BY <1>1, <1>2 DEF InOrder
<1>5. a = IF c >= r THEN c - r ELSE c - r + n
  BY <1>0, <1>1, Around
<1>6. b \in 0 .. n - 1
  BY <1>0, <1>2, Distance
<1>7. s = IF r + 1 = n THEN 0 ELSE r + 1
  BY <1>0, Neighbours
<1>8. s \in 0 .. n - 1
  BY <1>0, <1>7
<1>9. PICK e : e = (c - s) % n
  OBVIOUS
<1>10. e = IF c >= s THEN c - s ELSE c - s + n
  BY <1>0, <1>8, <1>9, Around
<1>11. e + b < n
  BY <1>0, <1>4, <1>5, <1>6, <1>7, <1>10
<1> QED BY <1>0, <1>2, <1>8, <1>9, <1>11 DEF Indices, InOrder

\* All of the second part added to the first.
LEMMA PartsCommitted ==
  ASSUME NEW n, NEW r, NEW c, NEW w, Indices(n, r, c, w), InOrder(n, r, c, w)
  PROVE  Indices(n, r, w, w) /\ InOrder(n, r, w, w) /\ (w - w) % n = 0
<1>0. n \in Nat \ {0} /\ r \in 0 .. n - 1 /\ w \in 0 .. n - 1
  BY DEF Indices
<1>1. (w - w) % n = 0
  BY <1>0
<1>2. (w - r) % n \in 0 .. n - 1
  BY <1>0, Distance
<1>3. ((w - r) % n) + ((w - w) % n) < n
  BY <1>0, <1>1, <1>2
<1> QED BY <1>0, <1>1, <1>3 DEF Indices, InOrder

\* The sequence h of the d values that the ring buf holds from r on.
HeldAs(X, n, buf, r, h, d) ==
    /\ h \in Seq(X) /\ Len(h) = d /\ d \in 0 .. n - 1
    /\ \A i \in 1 .. d : h[i] = buf[(r + i - 1) % n] /\ (r + i - 1) % n \in 0 .. n - 1

\* What a ring holds is a sequence.
LEMMA HeldSequence ==
  ASSUME NEW X, NEW n \in Nat \ {0}, NEW buf \in [0 .. n - 1 -> X],
         NEW r \in 0 .. n - 1, NEW w \in 0 .. n - 1, NEW h, h = RingHeld(n, buf, r, w),
         NEW d, d = (w - r) % n
  PROVE  HeldAs(X, n, buf, r, h, d)
<1>1. d \in 0 .. n - 1
  BY Distance
<1>2. \A i \in 1 .. d : (r + i - 1) % n \in 0 .. n - 1
  BY <1>1
<1>3. h = [i \in 1 .. d |-> buf[(r + i - 1) % n]]
  BY DEF RingHeld
<1>4. \A i \in 1 .. d : buf[(r + i - 1) % n] \in X
  BY <1>2
<1>5. h \in Seq(X) /\ Len(h) = d
  BY <1>1, <1>3, <1>4
<1>6. \A i \in 1 .. d : h[i] = buf[(r + i - 1) % n]
  BY <1>3
<1> QED BY <1>1, <1>2, <1>5, <1>6, Zenon DEF HeldAs

\* Two sequences, one after the other.
LEMMA ConcatWhole ==
  ASSUME NEW X, NEW s \in Seq(X), NEW u \in Seq(X)
  PROVE  s \o u \in Seq(X) /\ Len(s \o u) = Len(s) + Len(u)
OBVIOUS

\* An element of the first of two sequences.
LEMMA ConcatLeft ==
  ASSUME NEW X, NEW s \in Seq(X), NEW u \in Seq(X), NEW i \in 1 .. Len(s)
  PROVE  (s \o u)[i] = s[i]
OBVIOUS

\* An element of the second of two sequences.
LEMMA ConcatRight ==
  ASSUME NEW X, NEW s \in Seq(X), NEW u \in Seq(X), NEW i \in 1 .. Len(u)
  PROVE  (s \o u)[Len(s) + i] = u[i]
OBVIOUS

\* Two sequences with the same length and the same elements.
LEMMA SameSequence ==
  ASSUME NEW X, NEW s \in Seq(X), NEW u \in Seq(X), Len(s) = Len(u),
         \A i \in 1 .. Len(s) : s[i] = u[i]
  PROVE  s = u
OBVIOUS

\* What the ring holds from r to c does not depend on the place w.
HoldsSame(n, buf, r, c, w, b) ==
    RingHeld(n, [buf EXCEPT ![w] = b], r, c) = RingHeld(n, buf, r, c)

\* Storing at w leaves the first part alone.
LEMMA HeldKept ==
  ASSUME NEW X, NEW n, NEW r, NEW c, NEW w, Indices(n, r, c, w), InOrder(n, r, c, w),
         NEW buf \in [0 .. n - 1 -> X], NEW b \in X
  PROVE  HoldsSame(n, buf, r, c, w, b)
<1>0. n \in Nat \ {0} /\ r \in 0 .. n - 1 /\ c \in 0 .. n - 1 /\ w \in 0 .. n - 1
  BY DEF Indices
<1>1. PICK d : d = (w - r) % n
  OBVIOUS
<1>2. PICK a : a = (c - r) % n
  OBVIOUS
<1>3. d \in 0 .. n - 1 /\ a \in 0 .. n - 1 /\ a <= d
  <2>1. (w - c) % n \in 0 .. n - 1 /\ d \in 0 .. n - 1 /\ a \in 0 .. n - 1
    BY <1>0, <1>1, <1>2, Distance
  <2>2. d = a + ((w - c) % n)
    BY <1>1, <1>2, PartsAdd
  <2> QED BY <1>0, <2>1, <2>2
<1>4. d = IF w >= r THEN w - r ELSE w - r + n
  BY <1>0, <1>1, Around
<1>5. ASSUME NEW i \in 1 .. a PROVE (r + i - 1) % n # w /\ (r + i - 1) % n \in 0 .. n - 1
  <2>1. i - 1 \in 0 .. n - 1 /\ r + i - 1 = r + (i - 1) /\ i - 1 < d
    BY <1>0, <1>3
  <2>2. (r + (i - 1)) % n = IF r + (i - 1) < n THEN r + (i - 1) ELSE r + (i - 1) - n
    BY <1>0, <2>1, Around
  <2> QED BY <1>0, <1>4, <2>1, <2>2
<1>6. \A i \in 1 .. a : [buf EXCEPT ![w] = b][(r + i - 1) % n] = buf[(r + i - 1) % n]
  BY <1>5
<1>7. [i \in 1 .. a |-> [buf EXCEPT ![w] = b][(r + i - 1) % n]]
        = [i \in 1 .. a |-> buf[(r + i - 1) % n]]
  BY <1>6
<1> QED BY <1>2, <1>7 DEF HoldsSame, RingHeld

\* How the parts of a ring, and a sequence before and after an operation, relate.
InParts(n, buf, r, c, w) ==
    RingHeld(n, buf, r, w) = RingHeld(n, buf, r, c) \o RingHeld(n, buf, c, w)
WithoutLast(h, g)  == h # <<>> /\ g = SubSeq(h, 1, Len(h) - 1)
WithoutFirst(h, g) == h # <<>> /\ g = Tail(h)

\* The ring holds the first part followed by the second.
LEMMA HeldParts ==
  ASSUME NEW X, NEW n, NEW r, NEW c, NEW w, Indices(n, r, c, w), InOrder(n, r, c, w),
         NEW buf \in [0 .. n - 1 -> X]
  PROVE  InParts(n, buf, r, c, w)
<1>0. n \in Nat \ {0} /\ r \in 0 .. n - 1 /\ c \in 0 .. n - 1 /\ w \in 0 .. n - 1
  BY DEF Indices
<1>1. PICK d : d = (w - r) % n
  OBVIOUS
<1>2. PICK a : a = (c - r) % n
  OBVIOUS
<1>3. PICK e : e = (w - c) % n
  OBVIOUS
<1>4. PICK all : all = RingHeld(n, buf, r, w)
  OBVIOUS
<1>5. PICK old : old = RingHeld(n, buf, r, c)
  OBVIOUS
<1>6. PICK new : new = RingHeld(n, buf, c, w)
  OBVIOUS
<1>7. /\ all \in Seq(X) /\ Len(all) = d /\ d \in 0 .. n - 1
      /\ \A i \in 1 .. d : all[i] = buf[(r + i - 1) % n] /\ (r + i - 1) % n \in 0 .. n - 1
  <2>1. HeldAs(X, n, buf, r, all, d)
    BY <1>0, <1>1, <1>4, HeldSequence
  <2> QED BY <2>1, Zenon DEF HeldAs
<1>8. /\ old \in Seq(X) /\ Len(old) = a /\ a \in 0 .. n - 1
      /\ \A i \in 1 .. a : old[i] = buf[(r + i - 1) % n] /\ (r + i - 1) % n \in 0 .. n - 1
  <2>1. HeldAs(X, n, buf, r, old, a)
    BY <1>0, <1>2, <1>5, HeldSequence
  <2> QED BY <2>1, Zenon DEF HeldAs
<1>9. /\ new \in Seq(X) /\ Len(new) = e /\ e \in 0 .. n - 1
      /\ \A i \in 1 .. e : new[i] = buf[(c + i - 1) % n] /\ (c + i - 1) % n \in 0 .. n - 1
  <2>1. HeldAs(X, n, buf, c, new, e)
    BY <1>0, <1>3, <1>6, HeldSequence
  <2> QED BY <2>1, Zenon DEF HeldAs
<1>10. d = a + e
  BY <1>1, <1>2, <1>3, PartsAdd
<1>11. PICK both : both = old \o new
  OBVIOUS
<1>12. /\ both \in Seq(X) /\ Len(both) = d
       /\ \A i \in 1 .. a : both[i] = old[i]
       /\ \A i \in 1 .. e : both[a + i] = new[i]
  <2>1. both \in Seq(X) /\ Len(both) = a + e
    BY <1>8, <1>9, <1>11, ConcatWhole
  <2>2. \A i \in 1 .. a : both[i] = old[i]
    BY <1>8, <1>9, <1>11, ConcatLeft
  <2>3. \A i \in 1 .. e : both[a + i] = new[i]
    BY <1>8, <1>9, <1>11, ConcatRight
  <2> QED BY <1>10, <2>1, <2>2, <2>3
<1>13. ASSUME NEW i \in 1 .. e PROVE (r + (a + i) - 1) % n = (c + i - 1) % n
  <2>1. a = IF c >= r THEN c - r ELSE c - r + n
    BY <1>0, <1>2, Around
  <2>2. i - 1 \in 0 .. n - 1 /\ c + i - 1 = c + (i - 1)
    BY <1>0, <1>9
  <2>3. (c + (i - 1)) % n = IF c + (i - 1) < n THEN c + (i - 1) ELSE c + (i - 1) - n
    BY <1>0, <2>2, Around
  <2>4. PICK f : f = a + i - 1
    OBVIOUS
  <2>5. f \in 0 .. n - 1 /\ r + (a + i) - 1 = r + f
    BY <1>0, <1>7, <1>8, <1>9, <1>10, <2>4
  <2>6. (r + f) % n = IF r + f < n THEN r + f ELSE r + f - n
    BY <1>0, <2>5, Around
  <2> QED BY <1>0, <1>8, <1>9, <2>1, <2>2, <2>3, <2>4, <2>5, <2>6
<1>14. \A i \in 1 .. d : all[i] = both[i]
  <2>1. SUFFICES ASSUME NEW i \in 1 .. d PROVE all[i] = both[i]
    OBVIOUS
  <2>2. CASE i \in 1 .. a
    BY <1>7, <1>8, <1>12, <2>2
  <2>3. CASE i \notin 1 .. a
    <3>1. i - a \in 1 .. e /\ a + (i - a) = i
      BY <1>7, <1>8, <1>9, <1>10, <2>3
    <3>2. PICK j : j = i - a
      OBVIOUS
    <3>3. j \in 1 .. e /\ a + j = i
      BY <3>1, <3>2
    <3>4. (r + (a + j) - 1) % n = (c + j - 1) % n
      BY <1>13, <3>3
    <3>5. all[i] = buf[(c + j - 1) % n]
      BY <1>7, <3>3, <3>4
    <3> QED BY <1>9, <1>12, <3>3, <3>5
  <2> QED BY <2>2, <2>3
<1>15. all = both
  BY <1>7, <1>12, <1>14, SameSequence
<1> QED BY <1>4, <1>5, <1>6, <1>11, <1>15, Zenon DEF InParts

\* Taking the last character away.
LEMMA HeldErased ==
  ASSUME NEW X, NEW n, NEW r, NEW c, NEW w, Indices(n, r, c, w), InOrder(n, r, c, w), c # w,
         NEW v, v = (w - 1 + n) % n, NEW buf \in [0 .. n - 1 -> X],
         NEW h, h = RingHeld(n, buf, c, w)
  PROVE  WithoutLast(h, RingHeld(n, buf, c, v))
<1>0. n \in Nat \ {0} /\ c \in 0 .. n - 1 /\ w \in 0 .. n - 1
  BY DEF Indices
<1>1. v \in 0 .. n - 1 /\ (w - c) % n = ((v - c) % n) + 1
  <2>1. Indices(n, r, c, v) /\ (w - c) % n = ((v - c) % n) + 1
    BY PartsShrink
  <2> QED BY <2>1 DEF Indices
<1>2. PICK e : e = (v - c) % n
  OBVIOUS
<1>3. PICK g : g = RingHeld(n, buf, c, v)
  OBVIOUS
<1>4. /\ g \in Seq(X) /\ Len(g) = e /\ e \in 0 .. n - 1
      /\ \A i \in 1 .. e : g[i] = buf[(c + i - 1) % n] /\ (c + i - 1) % n \in 0 .. n - 1
  <2>1. HeldAs(X, n, buf, c, g, e)
    BY <1>0, <1>1, <1>2, <1>3, HeldSequence
  <2> QED BY <2>1, Zenon DEF HeldAs
<1>5. PICK d : d = (w - c) % n
  OBVIOUS
<1>6. /\ h \in Seq(X) /\ Len(h) = d /\ d \in 0 .. n - 1
      /\ \A i \in 1 .. d : h[i] = buf[(c + i - 1) % n] /\ (c + i - 1) % n \in 0 .. n - 1
  <2>1. HeldAs(X, n, buf, c, h, d)
    BY <1>0, <1>5, HeldSequence
  <2> QED BY <2>1, Zenon DEF HeldAs
<1>7. d = e + 1
  BY <1>1, <1>2, <1>5
<1>8. h # <<>>
  BY <1>4, <1>6, <1>7
<1>9. PICK u : u = SubSeq(h, 1, Len(h) - 1)
  OBVIOUS
<1>10. u \in Seq(X) /\ Len(u) = e /\ \A i \in 1 .. e : u[i] = h[i]
  BY <1>4, <1>6, <1>7, <1>9
<1>11. \A i \in 1 .. e : g[i] = u[i]
  BY <1>4, <1>6, <1>7, <1>10
<1>12. g = u
  BY <1>4, <1>10, <1>11, SameSequence
<1> QED BY <1>3, <1>8, <1>9, <1>12, Zenon DEF WithoutLast

\* Taking the first character.
LEMMA HeldTail ==
  ASSUME NEW X, NEW n \in Nat \ {0}, NEW r \in 0 .. n - 1, NEW c \in 0 .. n - 1, r # c,
         NEW s, s = (r + 1) % n, NEW buf \in [0 .. n - 1 -> X],
         NEW h, h = RingHeld(n, buf, r, c)
  PROVE  WithoutFirst(h, RingHeld(n, buf, s, c))
<1>1. HoldsLess(X, n, buf, r, c, s)
  BY RingHeldTaken
<1>2. PICK g : g = RingHeld(n, buf, s, c)
  OBVIOUS
<1>3. g \in Seq(X) /\ h = <<buf[r]>> \o g
  BY <1>1, <1>2 DEF HoldsLess
<1>4. <<buf[r]>> \in Seq(X) /\ Len(<<buf[r]>>) = 1
  OBVIOUS
<1>5. h \in Seq(X) /\ Len(h) = 1 + Len(g) /\ \A i \in 1 .. Len(g) : h[i + 1] = g[i]
  BY <1>3, <1>4
<1>6. h # <<>>
  BY <1>3, <1>5
<1>7. PICK u : u = Tail(h)
  OBVIOUS
<1>8. u \in Seq(X) /\ Len(u) = Len(g) /\ \A i \in 1 .. Len(g) : u[i] = h[i + 1]
  BY <1>3, <1>5, <1>6, <1>7
<1>9. g = u
  BY <1>3, <1>5, <1>8, SameSequence
<1> QED BY <1>2, <1>6, <1>7, <1>9, Zenon DEF WithoutFirst

-----------------------------------------------------------------------------
(* The line discipline of the terminals.                                     *)
Chars   == {e[2] : e \in {x \in Events : x[1] = "char"}}
Letters == Chars \cup {"nl", "zero"}

\* What a terminal has committed, and the line that is being typed.
CommittedOf(y) == RingHeld(PageSize, y.buf, y.read, y.commit)
LineOf(y)      == RingHeld(PageSize, y.buf, y.commit, y.write)
RoomIn(y)      == Len(CommittedOf(y)) + Len(LineOf(y)) < PageSize - 1

\* The fields of a terminal that make its ring.
RingFields == {"read", "write", "commit", "buf", "opened"}
RingTyped(y) ==
    /\ RingFields \subseteq DOMAIN y
    /\ y.buf \in [0 .. PageSize - 1 -> Letters]
    /\ Indices(PageSize, y.read, y.commit, y.write)
LineRing(y) ==
    /\ RingTyped(y) /\ InOrder(PageSize, y.read, y.commit, y.write)
    /\ y.opened = -1 => y.read = 0 /\ y.commit = 0 /\ y.write = 0

\* A terminal whose ring is the same.
SameRing(y, z) ==
    /\ RingFields \subseteq DOMAIN z
    /\ z.buf = y.buf /\ z.read = y.read /\ z.commit = y.commit /\ z.write = y.write

\* The slices of the ring in tty.c are what the ring holds.
LEMMA SlicesAre ==
  ASSUME NEW y, RingTyped(y)
  PROVE  /\ Terminal!Slice(y, y.read, y.commit) = CommittedOf(y)
         /\ Terminal!Slice(y, y.commit, y.write) = LineOf(y)
<1>0. /\ PageSize \in Nat \ {0} /\ y.read \in 0 .. PageSize - 1
      /\ y.commit \in 0 .. PageSize - 1 /\ y.write \in 0 .. PageSize - 1
  BY DEF RingTyped, Indices
<1>1. (y.commit - y.read + PageSize) % PageSize = (y.commit - y.read) % PageSize
  BY <1>0, Distance
<1>2. (y.write - y.commit + PageSize) % PageSize = (y.write - y.commit) % PageSize
  BY <1>0, Distance
<1> QED BY <1>1, <1>2 DEF Terminal!Slice, CommittedOf, LineOf, RingHeld

\* The lengths of the two parts.
LEMMA PartLengths ==
  ASSUME NEW y, RingTyped(y)
  PROVE  /\ CommittedOf(y) \in Seq(Letters) /\ LineOf(y) \in Seq(Letters)
         /\ Len(CommittedOf(y)) = (y.commit - y.read) % PageSize
         /\ Len(LineOf(y)) = (y.write - y.commit) % PageSize
<1>0. /\ PageSize \in Nat \ {0} /\ y.read \in 0 .. PageSize - 1
      /\ y.commit \in 0 .. PageSize - 1 /\ y.write \in 0 .. PageSize - 1
      /\ y.buf \in [0 .. PageSize - 1 -> Letters]
  BY DEF RingTyped, Indices
<1>1. HeldAs(Letters, PageSize, y.buf, y.read, CommittedOf(y), (y.commit - y.read) % PageSize)
  BY <1>0, HeldSequence DEF CommittedOf
<1>2. HeldAs(Letters, PageSize, y.buf, y.commit, LineOf(y), (y.write - y.commit) % PageSize)
  BY <1>0, HeldSequence DEF LineOf
<1> QED BY <1>1, <1>2, Zenon DEF HeldAs

\* There is room exactly when tty_append_char() finds the ring not full.
LEMMA RoomIs ==
  ASSUME NEW y, LineRing(y)
  PROVE  RoomIn(y) <=> ~Terminal!Full(y)
<1>1. (y.write + 1) % PageSize = y.read
        <=> ~(((y.commit - y.read) % PageSize) + ((y.write - y.commit) % PageSize) < PageSize - 1)
  BY PartsFull DEF LineRing, RingTyped
<1> QED BY <1>1, PartLengths DEF RoomIn, Terminal!Full, LineRing

\* The terminal y with the character c added to its line, or dropped.
Appended(y, c, z) ==
    /\ LineRing(z) /\ z.opened = y.opened
    /\ CommittedOf(z) = CommittedOf(y)
    /\ LineOf(z) = IF RoomIn(y) THEN Append(LineOf(y), c) ELSE LineOf(y)

\* tty_append_char() adds the character to the line if there is room, and else nothing.
LEMMA AppendIs ==
  ASSUME NEW y, LineRing(y), y.opened # -1, NEW c \in Letters,
         NEW z, z = Terminal!tty_append_char(y, c)
  PROVE  Appended(y, c, z)
<1>0. RingTyped(y) /\ InOrder(PageSize, y.read, y.commit, y.write)
  BY DEF LineRing
<1>1. CASE ~RoomIn(y)
  <2>1. z = [y EXCEPT !.dropped = TRUE]
    BY <1>1, RoomIs DEF Terminal!tty_append_char, Terminal!NULL
  <2>2. SameRing(y, z) /\ z.opened = y.opened
    BY <1>0, <2>1 DEF SameRing, RingTyped, RingFields
  <2> QED BY <1>0, <1>1, <2>2 DEF Appended, SameRing, LineRing, RingTyped, CommittedOf, LineOf
<1>2. CASE RoomIn(y)
  <2>1. z = [y EXCEPT !.buf[y.write] = c, !.write = (@ + 1) % PageSize]
    BY <1>2, RoomIs DEF Terminal!tty_append_char, Terminal!NULL
  <2>2. PICK v : v = (y.write + 1) % PageSize
    OBVIOUS
  <2>3. /\ RingFields \subseteq DOMAIN z /\ z.buf = [y.buf EXCEPT ![y.write] = c]
        /\ z.write = v /\ z.read = y.read /\ z.commit = y.commit /\ z.opened = y.opened
    BY <1>0, <2>1, <2>2 DEF RingTyped, RingFields
  <2>4. v # y.read
    BY <1>2, <2>2, RoomIs DEF Terminal!Full
  <2>5. /\ Indices(PageSize, y.read, y.commit, y.write)
        /\ y.buf \in [0 .. PageSize - 1 -> Letters]
    BY <1>0 DEF RingTyped
  <2>6. /\ Indices(PageSize, y.read, y.commit, v)
        /\ InOrder(PageSize, y.read, y.commit, v) /\ v # y.commit
    <3>1. Grown(PageSize, y.read, y.commit, v)
      BY <1>0, <2>2, <2>4, <2>5, PartsGrow
    <3> QED BY <3>1 DEF Grown
  <2>7. z.buf \in [0 .. PageSize - 1 -> Letters]
    BY <2>3, <2>5
  <2>8. LineRing(z)
    BY <2>3, <2>6, <2>7 DEF LineRing, RingTyped
  <2>9. CommittedOf(z) = CommittedOf(y)
    <3>1. HoldsSame(PageSize, y.buf, y.read, y.commit, y.write, c)
      BY <1>0, <2>5, HeldKept
    <3> QED BY <2>3, <3>1 DEF HoldsSame, CommittedOf
  <2>10. HoldsMore(Letters, PageSize, y.buf, y.commit, y.write, v, c)
    <3>1. /\ PageSize \in Nat \ {0} /\ y.commit \in 0 .. PageSize - 1
          /\ y.write \in 0 .. PageSize - 1
      BY <2>5 DEF Indices
    <3> QED BY <2>2, <2>5, <2>6, <3>1, RingHeldStored
  <2>11. LineOf(z) = Append(LineOf(y), c)
    BY <2>3, <2>10 DEF HoldsMore, LineOf
  <2> QED BY <1>2, <2>3, <2>8, <2>9, <2>11 DEF Appended
<1> QED BY <1>1, <1>2

\* tty_commit() adds the line to what is committed.
LEMMA CommitIs ==
  ASSUME NEW z, LineRing(z), z.opened # -1,
         NEW x, x = [z EXCEPT !.commit = z.write, !.waiting = Terminal!NULL]
  PROVE  /\ LineRing(x) /\ x.opened = z.opened
         /\ CommittedOf(x) = CommittedOf(z) \o LineOf(z)
         /\ LineOf(x) = <<>>
<1>0. /\ RingFields \subseteq DOMAIN z /\ z.buf \in [0 .. PageSize - 1 -> Letters]
      /\ Indices(PageSize, z.read, z.commit, z.write)
      /\ InOrder(PageSize, z.read, z.commit, z.write)
  BY DEF LineRing, RingTyped
<1>1. /\ RingFields \subseteq DOMAIN x /\ x.buf = z.buf /\ x.read = z.read
      /\ x.commit = z.write /\ x.write = z.write /\ x.opened = z.opened
  BY <1>0 DEF RingFields
<1>2. /\ Indices(PageSize, z.read, z.write, z.write)
      /\ InOrder(PageSize, z.read, z.write, z.write)
      /\ (z.write - z.write) % PageSize = 0
  BY <1>0, PartsCommitted
<1>3. LineRing(x)
  BY <1>0, <1>1, <1>2 DEF LineRing, RingTyped
<1>4. CommittedOf(x) = CommittedOf(z) \o LineOf(z)
  <2>1. InParts(PageSize, z.buf, z.read, z.commit, z.write)
    BY <1>0, HeldParts
  <2>2. CommittedOf(x) = RingHeld(PageSize, z.buf, z.read, z.write)
    BY <1>1 DEF CommittedOf
  <2> QED BY <2>1, <2>2 DEF InParts, CommittedOf, LineOf
<1>5. LineOf(x) = <<>>
  BY <1>1, <1>2 DEF LineOf, RingHeld
<1> QED BY <1>1, <1>3, <1>4, <1>5

\* Backspace takes the last character of the line.
LEMMA EraseIs ==
  ASSUME NEW y, LineRing(y), Terminal!tty_line_len(y) > 0,
         NEW z, z = [y EXCEPT !.write = (@ - 1 + PageSize) % PageSize]
  PROVE  /\ LineRing(z) /\ z.opened = y.opened
         /\ CommittedOf(z) = CommittedOf(y)
         /\ LineOf(y) # <<>> /\ LineOf(z) = SubSeq(LineOf(y), 1, Len(LineOf(y)) - 1)
<1>0. /\ RingFields \subseteq DOMAIN y /\ y.buf \in [0 .. PageSize - 1 -> Letters]
      /\ Indices(PageSize, y.read, y.commit, y.write)
      /\ InOrder(PageSize, y.read, y.commit, y.write)
  BY DEF LineRing, RingTyped
<1>1. PICK v : v = (y.write - 1 + PageSize) % PageSize
  OBVIOUS
<1>2. /\ RingFields \subseteq DOMAIN z /\ z.buf = y.buf /\ z.read = y.read
      /\ z.commit = y.commit /\ z.write = v /\ z.opened = y.opened
  BY <1>0, <1>1 DEF RingFields
<1>3. y.commit # y.write
  <2>1. SUFFICES ASSUME y.commit = y.write PROVE FALSE
    OBVIOUS
  <2>2. PageSize \in Nat \ {0} /\ y.write \in 0 .. PageSize - 1
    BY <1>0 DEF Indices
  <2>3. (y.write - y.commit + PageSize) % PageSize = 0
    BY <2>1, <2>2
  <2> QED BY <2>3 DEF Terminal!tty_line_len
<1>4. Indices(PageSize, y.read, y.commit, v) /\ InOrder(PageSize, y.read, y.commit, v)
  BY <1>0, <1>1, <1>3, PartsShrink
<1>5. y.opened # -1
  BY <1>3 DEF LineRing
<1>6. LineRing(z)
  BY <1>0, <1>2, <1>4, <1>5 DEF LineRing, RingTyped
<1>7. PICK h : h = LineOf(y)
  OBVIOUS
<1>8. h # <<>> /\ RingHeld(PageSize, y.buf, y.commit, v) = SubSeq(h, 1, Len(h) - 1)
  <2>1. h = RingHeld(PageSize, y.buf, y.commit, y.write)
    BY <1>7 DEF LineOf
  <2>2. WithoutLast(h, RingHeld(PageSize, y.buf, y.commit, v))
    BY <1>0, <1>1, <1>3, <2>1, HeldErased
  <2> QED BY <2>2 DEF WithoutLast
<1> QED BY <1>2, <1>6, <1>7, <1>8 DEF CommittedOf, LineOf

\* tty_read() takes the first character that is committed.
LEMMA ConsumeIs ==
  ASSUME NEW y, LineRing(y), y.read # y.commit,
         NEW z, z = [y EXCEPT !.read = (@ + 1) % PageSize]
  PROVE  /\ LineRing(z) /\ z.opened = y.opened
         /\ LineOf(z) = LineOf(y)
         /\ CommittedOf(y) # <<>> /\ CommittedOf(z) = Tail(CommittedOf(y))
<1>0. /\ RingFields \subseteq DOMAIN y /\ y.buf \in [0 .. PageSize - 1 -> Letters]
      /\ Indices(PageSize, y.read, y.commit, y.write)
      /\ InOrder(PageSize, y.read, y.commit, y.write)
  BY DEF LineRing, RingTyped
<1>1. PICK s : s = (y.read + 1) % PageSize
  OBVIOUS
<1>2. /\ RingFields \subseteq DOMAIN z /\ z.buf = y.buf /\ z.read = s
      /\ z.commit = y.commit /\ z.write = y.write /\ z.opened = y.opened
  BY <1>0, <1>1 DEF RingFields
<1>3. Indices(PageSize, s, y.commit, y.write) /\ InOrder(PageSize, s, y.commit, y.write)
  BY <1>0, <1>1, PartsTaken
<1>4. y.opened # -1
  BY DEF LineRing
<1>5. LineRing(z)
  BY <1>0, <1>2, <1>3, <1>4 DEF LineRing, RingTyped
<1>6. PICK h : h = CommittedOf(y)
  OBVIOUS
<1>7. h # <<>> /\ RingHeld(PageSize, y.buf, s, y.commit) = Tail(h)
  <2>1. /\ PageSize \in Nat \ {0} /\ y.read \in 0 .. PageSize - 1
        /\ y.commit \in 0 .. PageSize - 1
    BY <1>0 DEF Indices
  <2>2. h = RingHeld(PageSize, y.buf, y.read, y.commit)
    BY <1>6 DEF CommittedOf
  <2>3. WithoutFirst(h, RingHeld(PageSize, y.buf, s, y.commit))
    BY <1>0, <1>1, <2>1, <2>2, HeldTail
  <2> QED BY <2>3 DEF WithoutFirst
<1> QED BY <1>2, <1>5, <1>6, <1>7 DEF CommittedOf, LineOf

\* What one step may do to a terminal, as a line discipline.
LineMove(y, z) ==
    \/ CommittedOf(z) = CommittedOf(y) /\ LineOf(z) = LineOf(y)
    \/ \E c \in Chars : /\ RoomIn(y) /\ LineOf(z) = Append(LineOf(y), c)
                        /\ CommittedOf(z) = CommittedOf(y)
    \/ /\ LineOf(y) # <<>> /\ LineOf(z) = SubSeq(LineOf(y), 1, Len(LineOf(y)) - 1)
       /\ CommittedOf(z) = CommittedOf(y)
    \/ /\ CommittedOf(z) = CommittedOf(y) \o (IF RoomIn(y) THEN Append(LineOf(y), "nl") ELSE LineOf(y))
       /\ LineOf(z) = <<>>
    \/ /\ CommittedOf(y) # <<>> /\ CommittedOf(z) = Tail(CommittedOf(y))
       /\ LineOf(z) = LineOf(y)

\* The first terminal, and how often a terminal has been opened.
Opened == "opens" \in DOMAIN count /\ count.opens \in Nat
            /\ (tty[0].opened # -1 => count.opens >= 1)
LineInv == Subscribed /\ LineRing(tty[0]) /\ Opened

\* The first terminal before it is opened.
LEMMA LineInvInitial == Terminal!Init => LineInv
<1> SUFFICES ASSUME Terminal!Init PROVE LineInv
  OBVIOUS
<1>1. Subscribed
  BY SubscribedInitial
<1>2. 0 \in 0 .. NumTtys - 1 /\ PageSize \in Nat \ {0} /\ 0 \in 0 .. PageSize - 1
  BY TerminalsAssumption
<1>3. tty[0] = [read |-> 0, write |-> 0, commit |-> 0,
                buf |-> [i \in 0 .. PageSize - 1 |-> "zero"], opened |-> -1, waiting |-> -1,
                dropped |-> FALSE, mods |-> {}, leds |-> {}]
  BY <1>2 DEF Terminal!Init, Terminal!Ttys, Terminal!NULL
<1>4. tty[0].buf \in [0 .. PageSize - 1 -> Letters]
  <2>1. tty[0].buf = [i \in 0 .. PageSize - 1 |-> "zero"]
    BY <1>3
  <2>2. "zero" \in Letters
    BY DEF Letters
  <2> QED BY <2>1, <2>2
<1>5. Indices(PageSize, 0, 0, 0) /\ InOrder(PageSize, 0, 0, 0)
  <2>1. (0 - 0) % PageSize = 0
    BY <1>2
  <2> QED BY <1>2, <2>1 DEF Indices, InOrder
<1>6. LineRing(tty[0])
  <2>1. /\ RingFields \subseteq DOMAIN tty[0]
        /\ tty[0].read = 0 /\ tty[0].commit = 0 /\ tty[0].write = 0
    BY <1>3 DEF RingFields
  <2> QED BY <1>4, <1>5, <2>1 DEF LineRing, RingTyped
<1>7. Opened
  <2>1. count = [events |-> 0, opens |-> 0, writes |-> 0]
    BY DEF Terminal!Init
  <2>2. tty[0].opened = -1
    BY <1>3
  <2> QED BY <2>1, <2>2 DEF Opened
<1> QED BY <1>1, <1>6, <1>7 DEF LineInv

\* A move of the ring is a step of the line discipline.
LEMMA MoveIsStep ==
  ASSUME RingTyped(tty[0]), RingTyped(tty'[0]), LineMove(tty[0], tty'[0])
  PROVE  Terminal!Discipline!LineNext \/ UNCHANGED <<Terminal!Committed(0), Terminal!Line(0)>>
<1>1. Terminal!Committed(0) = CommittedOf(tty[0]) /\ Terminal!Line(0) = LineOf(tty[0])
  BY SlicesAre DEF Terminal!Committed, Terminal!Line
<1>2. Terminal!Committed(0)' = CommittedOf(tty'[0]) /\ Terminal!Line(0)' = LineOf(tty'[0])
  <2>1. /\ Terminal!Slice(tty'[0], tty'[0].read, tty'[0].commit) = CommittedOf(tty'[0])
        /\ Terminal!Slice(tty'[0], tty'[0].commit, tty'[0].write) = LineOf(tty'[0])
    BY SlicesAre
  <2> QED BY <2>1 DEF Terminal!Committed, Terminal!Line, Terminal!Slice
<1> QED BY <1>1, <1>2
      DEF LineMove, RoomIn, Chars, Terminal!Discipline!LineNext, Terminal!Discipline!Type,
          Terminal!Discipline!Erase, Terminal!Discipline!Enter, Terminal!Discipline!Consume,
          Terminal!Discipline!Room, Terminal!Newline

\* A step that leaves the ring of the first terminal alone.
LEMMA LineKept ==
  ASSUME LineInv, Subscribed', SameRing(tty[0], tty'[0]),
         tty'[0].opened = -1 => tty[0].opened = -1,
         tty'[0].opened # -1 => count'.opens >= 1,
         "opens" \in DOMAIN count', count'.opens \in Nat
  PROVE  LineInv' /\ LineMove(tty[0], tty'[0])
<1>1. LineRing(tty'[0])
  BY DEF LineInv, LineRing, RingTyped, SameRing
<1>2. Opened'
  BY DEF Opened
<1>3. CommittedOf(tty'[0]) = CommittedOf(tty[0]) /\ LineOf(tty'[0]) = LineOf(tty[0])
  BY DEF SameRing, CommittedOf, LineOf
<1> QED BY <1>1, <1>2, <1>3 DEF LineInv, LineMove, LineRing, RingTyped, Opened

\* A step that moves the ring of the first terminal, which is open.
LEMMA LineMoved ==
  ASSUME LineInv, Subscribed', LineRing(tty'[0]), tty'[0].opened = tty[0].opened,
         count' = count, LineMove(tty[0], tty'[0])
  PROVE  LineInv' /\ LineMove(tty[0], tty'[0])
<1>1. Opened'
  BY DEF LineInv, Opened
<1> QED BY <1>1 DEF LineInv

\* Every event, whatever terminal is the current one.
LEMMA LineDeliver ==
  ASSUME LineInv, Terminal!Deliver
  PROVE  LineInv' /\ LineMove(tty[0], tty'[0])
<1>0. Subscribed /\ LineRing(tty[0]) /\ Opened
  BY DEF LineInv
<1>1. Subscribed' /\ count' = count
  BY <1>0, SubscribedDeliver DEF Terminal!Deliver
<1>2. event \in Events /\ current_tty # -1 /\ Terminal!on_events_received(event)
  BY <1>0 DEF Subscribed, Terminal!Deliver
<1>3. PICK y : y = tty[current_tty]
  OBVIOUS
<1>4. current_tty \in DOMAIN tty /\ 0 \in DOMAIN tty
  <2>1. /\ num_ttys \in 0 .. NumTtys /\ current_tty \in 0 .. num_ttys - 1
        /\ DOMAIN tty = 0 .. NumTtys - 1
    BY <1>0, <1>2 DEF Subscribed
  <2> QED BY <2>1, TerminalsAssumption
<1>5. /\ "opens" \in DOMAIN count' /\ count'.opens \in Nat
      /\ tty[0].opened # -1 => count'.opens >= 1
  BY <1>0, <1>1 DEF Opened
<1>6. RingFields \subseteq DOMAIN tty[0]
  BY <1>0 DEF LineRing, RingTyped
<1>7. CASE SameRing(tty[0], tty'[0]) /\ tty'[0].opened = tty[0].opened
  BY <1>1, <1>5, <1>7, LineKept
<1>8. CASE tty'[0] = tty[0]
  <2>1. SameRing(tty[0], tty'[0])
    BY <1>6, <1>8 DEF SameRing
  <2> QED BY <1>7, <1>8, <2>1
<1>9. CASE tty' = tty
  BY <1>8, <1>9
<1>10. ASSUME NEW z, tty' = [tty EXCEPT ![current_tty] = z], current_tty # 0
       PROVE  tty'[0] = tty[0]
  BY <1>4, <1>10
<1>11. CASE Terminal!LockKey(y, event)
  <2>1. tty' = tty \/ \E l : tty' = [tty EXCEPT ![current_tty].leds = l]
    BY <1>11 DEF Terminal!LockKey
  <2>2. SameRing(tty[0], tty'[0]) /\ tty'[0].opened = tty[0].opened
    BY <1>4, <1>6, <2>1 DEF SameRing, RingFields
  <2> QED BY <1>7, <2>2
<1>12. CASE Terminal!ModifierKey(y, event)
  <2>1. \E l : tty' = [tty EXCEPT ![current_tty].mods = l]
    BY <1>12 DEF Terminal!ModifierKey
  <2>2. SameRing(tty[0], tty'[0]) /\ tty'[0].opened = tty[0].opened
    BY <1>4, <1>6, <2>1 DEF SameRing, RingFields
  <2> QED BY <1>7, <2>2
<1>13. CASE Terminal!FunctionKey(y, event)
  BY <1>9, <1>13 DEF Terminal!FunctionKey
<1>14. CASE Terminal!EnterKey(y)
  <2>1. CASE current_tty # 0 \/ y.opened = -1
    <3>1. tty' = tty \/ \E z : tty' = [tty EXCEPT ![current_tty] = z] /\ current_tty # 0
      BY <1>14, <2>1 DEF Terminal!EnterKey, Terminal!NULL
    <3> QED BY <1>8, <1>9, <1>10, <3>1
  <2>2. CASE current_tty = 0 /\ y.opened # -1
    <3>1. y = tty[0] /\ LineRing(y)
      BY <1>0, <1>3, <2>2
    <3>2. PICK z : z = Terminal!tty_append_char(y, "nl")
      OBVIOUS
    <3>3. PICK x : x = [z EXCEPT !.commit = z.write, !.waiting = Terminal!NULL]
      OBVIOUS
    <3>4. tty'[0] = x
      BY <1>4, <1>14, <2>2, <3>2, <3>3
        DEF Terminal!EnterKey, Terminal!NULL, Terminal!Newline
    <3>5. "nl" \in Letters
      BY DEF Letters
    <3>6. /\ LineRing(z) /\ z.opened = y.opened /\ CommittedOf(z) = CommittedOf(y)
          /\ LineOf(z) = IF RoomIn(y) THEN Append(LineOf(y), "nl") ELSE LineOf(y)
      <4>1. Appended(y, "nl", z)
        BY <2>2, <3>1, <3>2, <3>5, AppendIs
      <4> QED BY <4>1 DEF Appended
    <3>7. /\ LineRing(x) /\ x.opened = z.opened
          /\ CommittedOf(x) = CommittedOf(z) \o LineOf(z) /\ LineOf(x) = <<>>
      BY <2>2, <3>3, <3>6, CommitIs
    <3>8. LineMove(y, x)
      BY <3>6, <3>7 DEF LineMove
    <3> QED BY <1>1, <3>1, <3>4, <3>6, <3>7, <3>8, LineMoved
  <2> QED BY <2>1, <2>2
<1>15. CASE Terminal!BackspaceKey(y)
  <2>1. PICK z : z = [y EXCEPT !.write = (@ - 1 + PageSize) % PageSize]
    OBVIOUS
  <2>2. \/ tty' = tty
        \/ tty' = [tty EXCEPT ![current_tty] = z] /\ Terminal!tty_line_len(y) > 0
    BY <1>3, <1>15, <2>1 DEF Terminal!BackspaceKey
  <2>3. CASE tty' = tty \/ current_tty # 0
    BY <1>8, <1>9, <1>10, <2>2, <2>3
  <2>4. CASE tty' # tty /\ current_tty = 0
    <3>1. y = tty[0] /\ LineRing(y) /\ tty'[0] = z /\ Terminal!tty_line_len(y) > 0
      BY <1>0, <1>3, <1>4, <2>2, <2>4
    <3>2. /\ LineRing(z) /\ z.opened = y.opened /\ CommittedOf(z) = CommittedOf(y)
          /\ LineOf(y) # <<>> /\ LineOf(z) = SubSeq(LineOf(y), 1, Len(LineOf(y)) - 1)
      BY <2>1, <3>1, EraseIs
    <3>3. LineMove(y, z)
      BY <3>2 DEF LineMove
    <3> QED BY <1>1, <3>1, <3>2, <3>3, LineMoved
  <2> QED BY <2>3, <2>4
<1>16. CASE event[1] = "char" /\ Terminal!AppendKey(y, event[2])
  <2>1. PICK z : z = Terminal!tty_append_char(y, event[2])
    OBVIOUS
  <2>2. tty' = [tty EXCEPT ![current_tty] = z]
    BY <1>16, <2>1 DEF Terminal!AppendKey
  <2>3. CASE current_tty # 0
    BY <1>8, <1>10, <2>2, <2>3
  <2>4. CASE current_tty = 0 /\ y.opened = -1
    <3>1. z = y
      BY <2>1, <2>4 DEF Terminal!tty_append_char, Terminal!NULL
    <3> QED BY <1>3, <1>4, <1>8, <2>2, <2>4, <3>1
  <2>5. CASE current_tty = 0 /\ y.opened # -1
    <3>1. y = tty[0] /\ LineRing(y) /\ tty'[0] = z
      BY <1>0, <1>3, <1>4, <2>2, <2>5
    <3>2. event[2] \in Chars /\ event[2] \in Letters
      BY <1>2, <1>16 DEF Chars, Letters
    <3>3. /\ LineRing(z) /\ z.opened = y.opened /\ CommittedOf(z) = CommittedOf(y)
          /\ LineOf(z) = IF RoomIn(y) THEN Append(LineOf(y), event[2]) ELSE LineOf(y)
      <4>1. Appended(y, event[2], z)
        BY <2>1, <2>5, <3>1, <3>2, AppendIs
      <4> QED BY <4>1 DEF Appended
    <3>4. LineMove(y, z)
      BY <3>2, <3>3 DEF LineMove
    <3> QED BY <1>1, <3>1, <3>3, <3>4, LineMoved
  <2> QED BY <2>3, <2>4, <2>5
<1> QED BY <1>2, <1>3, <1>9, <1>11, <1>12, <1>13, <1>14, <1>15, <1>16
      DEF Terminal!on_events_received, Terminal!Pressed

\* Every step, as long as the terminal is opened at most once.
LEMMA LineStep ==
  ASSUME MaxOpens \in 0 .. 1, LineInv, [Terminal!Next]_ttyVars
  PROVE  LineInv' /\ LineMove(tty[0], tty'[0])
<1>0. Subscribed /\ LineRing(tty[0]) /\ Opened
  BY DEF LineInv
<1>1. Subscribed'
  BY <1>0, SubscribedStep
<1>2. 0 \in DOMAIN tty /\ RingFields \subseteq DOMAIN tty[0]
  BY <1>0, TerminalsAssumption DEF Subscribed, LineRing, RingTyped
<1>3. /\ "opens" \in DOMAIN count /\ count.opens \in Nat
      /\ tty[0].opened # -1 => count.opens >= 1
  BY <1>0 DEF Opened
<1>4. ASSUME SameRing(tty[0], tty'[0]), tty'[0].opened = tty[0].opened,
             "opens" \in DOMAIN count', count'.opens = count.opens
      PROVE  LineInv' /\ LineMove(tty[0], tty'[0])
  BY <1>1, <1>3, <1>4, LineKept
<1>5. ASSUME tty' = tty, "opens" \in DOMAIN count', count'.opens = count.opens
      PROVE  LineInv' /\ LineMove(tty[0], tty'[0])
  <2>1. SameRing(tty[0], tty'[0])
    BY <1>2, <1>5 DEF SameRing
  <2> QED BY <1>4, <1>5, <2>1
<1>6. CASE Terminal!Deliver
  BY <1>6, LineDeliver
<1>7. CASE Terminal!tty_attach
  BY <1>3, <1>5, <1>7 DEF Terminal!tty_attach
<1>8. ASSUME NEW e \in Events, Terminal!input_manager_send_event(e)
      PROVE  LineInv' /\ LineMove(tty[0], tty'[0])
  BY <1>3, <1>5, <1>8 DEF Terminal!input_manager_send_event
<1>9. ASSUME NEW k \in Tasks, NEW t \in Terminal!Ttys, NEW o \in {"R", "W", "RW"},
             Terminal!Open(k, t, o)
      PROVE  LineInv' /\ LineMove(tty[0], tty'[0])
  <2>1. count.opens < MaxOpens /\ count' = [count EXCEPT !.opens = @ + 1]
    BY <1>9 DEF Terminal!Open
  <2>2. count.opens = 0 /\ "opens" \in DOMAIN count' /\ count'.opens = 1
    BY <1>3, <2>1
  <2>3. tty[0].opened = -1
    BY <1>3, <2>2
  <2>4. tty[0].read = 0 /\ tty[0].write = 0
    BY <1>0, <2>3 DEF LineRing
  <2>5. tty' = tty \/ \E f : tty' = [tty EXCEPT ![t].opened = f, ![t].write = 0, ![t].read = 0]
    BY <1>9 DEF Terminal!Open, Terminal!tty_open
  <2>6. SameRing(tty[0], tty'[0])
    <3>1. CASE tty' = tty \/ t # 0
      <4>1. tty'[0] = tty[0]
        BY <1>2, <2>5, <3>1
      <4> QED BY <1>2, <4>1 DEF SameRing
    <3>2. CASE tty' # tty /\ t = 0
      <4>1. PICK f : tty' = [tty EXCEPT ![0].opened = f, ![0].write = 0, ![0].read = 0]
        BY <2>5, <3>2
      <4>2. /\ DOMAIN tty'[0] = DOMAIN tty[0] /\ tty'[0].buf = tty[0].buf
            /\ tty'[0].commit = tty[0].commit /\ tty'[0].read = 0 /\ tty'[0].write = 0
        BY <1>2, <4>1 DEF RingFields
      <4> QED BY <1>2, <2>4, <4>2 DEF SameRing
    <3> QED BY <3>1, <3>2
  <2> QED BY <1>1, <2>2, <2>3, <2>6, LineKept
<1>10. ASSUME NEW k \in Tasks, Terminal!ReadRemember(k)
       PROVE  LineInv' /\ LineMove(tty[0], tty'[0])
  <2>1. count' = count /\ \E t, v : tty' = [tty EXCEPT ![t].waiting = v]
    BY <1>10 DEF Terminal!ReadRemember
  <2>2. SameRing(tty[0], tty'[0]) /\ tty'[0].opened = tty[0].opened
    BY <1>2, <2>1 DEF SameRing, RingFields
  <2> QED BY <1>3, <1>4, <2>1, <2>2
<1>11. ASSUME NEW k \in Tasks, Terminal!ReadCopy(k)
       PROVE  LineInv' /\ LineMove(tty[0], tty'[0])
  <2>1. PICK t : t = files[task[k].file].tty
    OBVIOUS
  <2>2. /\ count' = count
        /\ \/ tty' = [tty EXCEPT ![t].read = (@ + 1) % PageSize] /\ tty[t].read # tty[t].commit
           \/ \E v : tty' = [tty EXCEPT ![t].dropped = v]
    BY <1>11, <2>1 DEF Terminal!ReadCopy
  <2>3. CASE \E v : tty' = [tty EXCEPT ![t].dropped = v]
    <3>1. SameRing(tty[0], tty'[0]) /\ tty'[0].opened = tty[0].opened
      BY <1>2, <2>3 DEF SameRing, RingFields
    <3> QED BY <1>3, <1>4, <2>2, <3>1
  <2>4. CASE t # 0 /\ tty' = [tty EXCEPT ![t].read = (@ + 1) % PageSize]
    <3>1. tty'[0] = tty[0]
      BY <1>2, <2>4
    <3>2. SameRing(tty[0], tty'[0])
      BY <1>2, <3>1 DEF SameRing
    <3> QED BY <1>3, <1>4, <2>2, <3>1, <3>2
  <2>5. CASE t = 0 /\ tty' = [tty EXCEPT ![t].read = (@ + 1) % PageSize]
             /\ tty[t].read # tty[t].commit
    <3>1. PICK y : y = tty[0]
      OBVIOUS
    <3>2. PICK z : z = [y EXCEPT !.read = (@ + 1) % PageSize]
      OBVIOUS
    <3>3. tty'[0] = z /\ LineRing(y) /\ y.read # y.commit
      BY <1>0, <1>2, <2>5, <3>1, <3>2
    <3>4. /\ LineRing(z) /\ z.opened = y.opened /\ LineOf(z) = LineOf(y)
          /\ CommittedOf(y) # <<>> /\ CommittedOf(z) = Tail(CommittedOf(y))
      BY <3>2, <3>3, ConsumeIs
    <3>5. LineMove(y, z)
      BY <3>4 DEF LineMove
    <3> QED BY <1>1, <2>2, <3>1, <3>3, <3>4, <3>5, LineMoved
  <2> QED BY <2>2, <2>3, <2>4, <2>5
<1>12. ASSUME NEW k \in Tasks,
              \/ Terminal!Close(k) \/ Terminal!ReadTest(k) \/ Terminal!ReadBlock(k)
              \/ Terminal!WriteText(k) \/ Terminal!WriteEcho(k)
       PROVE  LineInv' /\ LineMove(tty[0], tty'[0])
  <2>1. UNCHANGED <<tty, count>>
    BY <1>12 DEF Terminal!Close, Terminal!ReadTest, Terminal!ReadBlock, Terminal!WriteText,
                 Terminal!WriteEcho
  <2> QED BY <1>3, <1>5, <2>1
<1>13. ASSUME NEW k \in Tasks, Terminal!WriteStart(k)
       PROVE  LineInv' /\ LineMove(tty[0], tty'[0])
  BY <1>3, <1>5, <1>13 DEF Terminal!WriteStart
<1>14. CASE UNCHANGED ttyVars
  BY <1>3, <1>5, <1>14 DEF ttyVars
<1> QED BY <1>6, <1>7, <1>8, <1>9, <1>10, <1>11, <1>12, <1>13, <1>14 DEF Terminal!Next

\* With any page, any number of terminals, readers, writers and keys: as long as the
\* terminal is opened only once (a second tty_open() resets two of the three indices),
\* its ring is a line discipline.
THEOREM TerminalIsLineDiscipline ==
  ASSUME MaxOpens \in 0 .. 1
  PROVE  InputSpec => IsLineDiscipline
<1> DEFINE Inv  == part = "terminal" => LineInv
           Step == part = "terminal" =>
                     \/ Terminal!Discipline!LineNext
                     \/ UNCHANGED <<Terminal!Committed(0), Terminal!Line(0)>>
<1>1. InputInit => Inv
  BY LineInvInitial DEF InputInit
<1>2. InputInit => Terminal!Discipline!LineInit
  <2>1. SUFFICES ASSUME InputInit PROVE Terminal!Discipline!LineInit
    OBVIOUS
  <2>2. tty[0].read = 0 /\ tty[0].commit = 0 /\ tty[0].write = 0
    <3>1. CASE Terminal!Init
      <4>1. 0 \in 0 .. NumTtys - 1
        BY TerminalsAssumption
      <4> QED BY <3>1, <4>1 DEF Terminal!Init, Terminal!Ttys
    <3>2. CASE Terminals!Init
      <4>1. 0 \in Terminals!Ttys
        BY DEF Terminals!Ttys
      <4> QED BY <3>2, <4>1 DEF Terminals!Init
    <3> QED BY <2>1, <3>1, <3>2 DEF InputInit
  <2>3. (0 - 0 + PageSize) % PageSize = 0
    BY TerminalsAssumption
  <2> QED BY <2>2, <2>3 DEF Terminal!Discipline!LineInit, Terminal!Committed, Terminal!Line,
                            Terminal!Slice
<1>3. Inv /\ [InputNext]_allVars => Inv' /\ Step
  <2>1. SUFFICES ASSUME part = "terminal", LineInv, [InputNext]_allVars
                 PROVE  LineInv' /\ Step
    BY DEF InputNext, allVars
  <2>2. [Terminal!Next]_ttyVars
    BY <2>1 DEF InputNext, allVars
  <2>3. LineInv' /\ LineMove(tty[0], tty'[0])
    BY <2>1, <2>2, LineStep
  <2>4. RingTyped(tty[0]) /\ RingTyped(tty'[0])
    BY <2>1, <2>3 DEF LineInv, LineRing
  <2> QED BY <2>3, <2>4, MoveIsStep
<1> QED BY <1>1, <1>2, <1>3, PTL DEF InputSpec, IsLineDiscipline
=============================================================================
