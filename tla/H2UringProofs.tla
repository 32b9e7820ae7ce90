--------------------------- MODULE H2UringProofs ----------------------------
(***************************************************************************)
(* Theorems about the io_uring back end, for any number of descriptors,    *)
(* any batch size and any interleaving with the kernel, as long as the     *)
(* generation of a descriptor does not come round (NumRegs < GenMod).      *)
(***************************************************************************)
EXTENDS H2Uring, FiniteSetTheorems, SequenceTheorems, TLAPS

-----------------------------------------------------------------------------
(* What is outstanding.                                                    *)

(* user_data: a poll is known by its descriptor and generation. *)
Key(x) == <<x.fd, x.generation>>

(* The polls among the completions of a sequence. *)
PollAt(s)   == {i \in DOMAIN s : s[i].kind = "poll"}
Keys(s)     == {Key(s[i]) : i \in PollAt(s)}
Done(s)     == {s[i] : i \in PollAt(s)}
Distinct(s) == \A i, j \in PollAt(s) : Key(s[i]) = Key(s[j]) => i = j

(* The part of the completion queue that is not yet put aside. *)
Rest     == SubSeq(cq, head + 1, Len(cq))
PollKeys == {Key(p) : p \in polls}
AllKeys  == PollKeys \cup Keys(Rest) \cup Keys(saved)

-----------------------------------------------------------------------------
(* The inductive invariant.                                                *)

(* The back end's table is the server's, and generations count the         *)
(* registrations.                                                          *)
RegInv ==
    \A f \in Fds :
        /\ fds[f].used <=> open[f] # NotRegistered
        /\ fds[f].used => fds[f].events \in Interest
        /\ fds[f].active => fds[f].used
        /\ fds[f].generation <= regs

(* Where the server is.  A reported event is for a descriptor that is      *)
(* still registered as it was, and whose poll has ended.                   *)
PcInv ==
    /\ pc \in {"handle", "drain"} => fd \in Fds /\ fds[fd].used
    /\ pc = "handle" => ~fds[fd].active
    /\ pc = "drain" => fds[fd].active
    /\ pc \in {"handle", "drain"} => \A e \in batch : e[1] # fd
    /\ pc = "enter" => batch = {}
    /\ pc # "drain" => head = 0
    /\ head <= Len(cq) /\ head <= Len(saved)
    /\ \A e \in batch : open[e[1]] = e[2] /\ ~fds[e[1]].active

(* At most one POLL_REMOVE is on its way, or its answer is; nothing but    *)
(* completions of polls is put aside.                                      *)
CancelInv ==
    /\ removal # NoFd => pc = "drain" /\ removal = fd
    /\ \A i \in DOMAIN saved : saved[i].kind = "poll"
    /\ \A i \in DOMAIN Rest : Rest[i].kind = "cancel" =>
          /\ pc = "drain" /\ removal = NoFd
          /\ Rest[i].fd = fd /\ Rest[i].generation = fds[fd].generation
    /\ \A i, j \in DOMAIN Rest :
          Rest[i].kind = "cancel" /\ Rest[j].kind = "cancel" => i = j

(* No two outstanding polls have the same user_data. *)
UniqueInv ==
    /\ \A p, q \in polls : Key(p) = Key(q) => p = q
    /\ Distinct(Rest) /\ Distinct(saved)
    /\ PollKeys \cap Keys(Rest) = {} /\ PollKeys \cap Keys(saved) = {}
    /\ Keys(Rest) \cap Keys(saved) = {}

(* An outstanding poll is not newer than its descriptor, and one of the    *)
(* descriptor's generation is for its present registration.                *)
Timely(x) ==
    /\ x.generation <= fds[x.fd].generation
    /\ fds[x.fd].used /\ x.generation = fds[x.fd].generation
       => x.reg = open[x.fd]
TimelyInv ==
    /\ \A p \in polls : Timely(p)
    /\ \A c \in Done(Rest) : Timely(c)
    /\ \A c \in Done(saved) : Timely(c)

(* active means that the current poll is outstanding. *)
Current(f) == <<f, fds[f].generation>>
ActiveInv == \A f \in Fds :
                fds[f].used => (fds[f].active <=> Current(f) \in AllKeys)

Inv == /\ TypeOK /\ RegInv /\ PcInv /\ CancelInv
       /\ UniqueInv /\ TimelyInv /\ ActiveInv

(* As server.c uses the back end: before it stops, every outstanding poll  *)
(* is of a descriptor in use, nothing is cancelled and nothing put aside.  *)
ServerInv ==
    ~CloseAny =>
        /\ \A k \in AllKeys : k[2] = fds[k[1]].generation
        /\ ~closing => /\ \A k \in AllKeys : fds[k[1]].used
                       /\ saved = << >> /\ pc # "drain"

-----------------------------------------------------------------------------
(* Completions in a sequence.                                              *)

LEMMA AppendCqe ==
    ASSUME NEW s \in Seq(Cqe), NEW c \in Cqe
    PROVE  LET t == Append(s, c)
           IN  /\ t \in Seq(Cqe) /\ Len(t) = Len(s) + 1
               /\ DOMAIN s = 1 .. Len(s) /\ DOMAIN t = 1 .. Len(s) + 1
               /\ Len(s) \in Nat
               /\ t[Len(s) + 1] = c
               /\ \A i \in DOMAIN s : t[i] = s[i]
OBVIOUS

LEMMA TailCqe ==
    ASSUME NEW s \in Seq(Cqe), s # << >>
    PROVE  LET t == Tail(s)
           IN  /\ t \in Seq(Cqe) /\ Head(s) \in Cqe /\ Head(s) = s[1]
               /\ Len(s) \in Nat \ {0}
               /\ DOMAIN s = 1 .. Len(s) /\ DOMAIN t = 1 .. Len(s) - 1
               /\ \A i \in DOMAIN t : t[i] = s[i + 1]
OBVIOUS

(* A completion at the end adds its key, if it is a poll's. *)
LEMMA AppendKeys ==
    ASSUME NEW s \in Seq(Cqe), NEW c \in Cqe
    PROVE  /\ c.kind = "poll" => Keys(Append(s, c)) = Keys(s) \cup {Key(c)}
           /\ c.kind # "poll" => Keys(Append(s, c)) = Keys(s)
           /\ Distinct(s) /\ (c.kind = "poll" => Key(c) \notin Keys(s))
              => Distinct(Append(s, c))
<1> DEFINE t == Append(s, c)
           n == Len(s) + 1
<1>1. /\ n \in Nat /\ n \notin DOMAIN s /\ DOMAIN t = DOMAIN s \cup {n}
      /\ t[n] = c /\ \A i \in DOMAIN s : t[i] = s[i]
  BY AppendCqe
<1> HIDE DEF t, n
<1>2. PollAt(t) = IF c.kind = "poll" THEN PollAt(s) \cup {n} ELSE PollAt(s)
  BY <1>1 DEF PollAt
<1>3. \A i \in PollAt(s) : i \in DOMAIN s /\ t[i] = s[i] /\ i # n
  BY <1>1 DEF PollAt
<1>4. c.kind = "poll" => Keys(t) = Keys(s) \cup {Key(c)}
  BY <1>1, <1>2, <1>3 DEF Keys
<1>5. c.kind # "poll" => Keys(t) = Keys(s)
  BY <1>2, <1>3 DEF Keys
<1>6. Distinct(s) /\ (c.kind = "poll" => Key(c) \notin Keys(s)) => Distinct(t)
  BY <1>1, <1>2, <1>3 DEF Distinct, Keys
<1> QED  BY <1>4, <1>5, <1>6 DEF t

(* Taking the first completion takes its key, if it is a poll's. *)
LEMMA TailKeys ==
    ASSUME NEW s \in Seq(Cqe), s # << >>, Distinct(s)
    PROVE  /\ Distinct(Tail(s))
           /\ Head(s).kind = "poll" =>
                 /\ Key(Head(s)) \in Keys(s)
                 /\ Keys(Tail(s)) = Keys(s) \ {Key(Head(s))}
           /\ Head(s).kind # "poll" => Keys(Tail(s)) = Keys(s)
<1> DEFINE t == Tail(s)
<1>1. /\ 1 \in DOMAIN s /\ Head(s) = s[1] /\ DOMAIN t \subseteq Nat \ {0}
      /\ \A i \in DOMAIN t : i + 1 \in DOMAIN s /\ t[i] = s[i + 1]
      /\ \A i \in DOMAIN s : i # 1 => i - 1 \in DOMAIN t /\ i - 1 + 1 = i
  BY TailCqe
<1> HIDE DEF t
<1>2. \A i \in PollAt(t) : i + 1 \in PollAt(s) /\ i + 1 # 1 /\ t[i] = s[i + 1]
  BY <1>1 DEF PollAt
<1>3. \A i \in PollAt(s) : i # 1 => i - 1 \in PollAt(t) /\ t[i - 1] = s[i]
  BY <1>1 DEF PollAt
<1>4. Distinct(t)
  <2>1. \A i \in PollAt(t) : i \in Nat
    BY <1>1 DEF PollAt
  <2> QED  BY <1>2, <2>1 DEF Distinct
<1>5. 1 \in PollAt(s) <=> Head(s).kind = "poll"
  BY <1>1 DEF PollAt
<1>6. ASSUME Head(s).kind = "poll"
      PROVE  Key(Head(s)) \in Keys(s) /\ Keys(t) = Keys(s) \ {Key(Head(s))}
  <2>1. Key(Head(s)) \in Keys(s)
    BY <1>1, <1>5, <1>6 DEF Keys
  <2>2. Keys(t) \subseteq Keys(s) \ {Key(Head(s))}
    BY <1>1, <1>2, <1>5, <1>6 DEF Keys, Distinct
  <2>3. Keys(s) \ {Key(Head(s))} \subseteq Keys(t)
    BY <1>1, <1>3, <1>5, <1>6 DEF Keys
  <2> QED  BY <2>1, <2>2, <2>3
<1>7. Head(s).kind # "poll" => Keys(t) = Keys(s)
  <2>1. Keys(t) \subseteq Keys(s)
    BY <1>2 DEF Keys
  <2>2. Head(s).kind # "poll" => Keys(s) \subseteq Keys(t)
    BY <1>3, <1>5 DEF Keys
  <2> QED  BY <2>1, <2>2
<1> QED  BY <1>4, <1>6, <1>7 DEF t

(* The same for the completions themselves. *)
LEMMA AppendDone ==
    ASSUME NEW s \in Seq(Cqe), NEW c \in Cqe
    PROVE  Done(Append(s, c)) = IF c.kind = "poll" THEN Done(s) \cup {c}
                                                   ELSE Done(s)
<1> DEFINE t == Append(s, c)
           n == Len(s) + 1
<1>1. /\ n \in Nat /\ n \notin DOMAIN s /\ DOMAIN t = DOMAIN s \cup {n}
      /\ t[n] = c /\ \A i \in DOMAIN s : t[i] = s[i]
  BY AppendCqe
<1> HIDE DEF t, n
<1>2. PollAt(t) = IF c.kind = "poll" THEN PollAt(s) \cup {n} ELSE PollAt(s)
  BY <1>1 DEF PollAt
<1>3. \A i \in PollAt(s) : t[i] = s[i]
  BY <1>1 DEF PollAt
<1>4. CASE c.kind = "poll"
  <2>1. Done(t) \subseteq Done(s) \cup {c}
    BY <1>1, <1>2, <1>3, <1>4 DEF Done
  <2>2. Done(s) \subseteq Done(t) /\ c \in Done(t)
    BY <1>1, <1>2, <1>3, <1>4 DEF Done
  <2> QED  BY <1>4, <2>1, <2>2 DEF t
<1>5. CASE c.kind # "poll"
  BY <1>2, <1>3, <1>5 DEF Done, t
<1> QED  BY <1>4, <1>5

LEMMA TailDone ==
    ASSUME NEW s \in Seq(Cqe), s # << >>
    PROVE  /\ Done(Tail(s)) \subseteq Done(s)
           /\ Head(s).kind = "poll" => Head(s) \in Done(s)
<1> DEFINE t == Tail(s)
<1>1. /\ 1 \in DOMAIN s /\ Head(s) = s[1]
      /\ \A i \in DOMAIN t : i + 1 \in DOMAIN s /\ t[i] = s[i + 1]
  BY TailCqe
<1> HIDE DEF t
<1>2. \A i \in PollAt(t) : i + 1 \in PollAt(s) /\ t[i] = s[i + 1]
  BY <1>1 DEF PollAt
<1>3. Done(t) \subseteq Done(s)
  BY <1>2 DEF Done
<1>4. Head(s).kind = "poll" => Head(s) \in Done(s)
  BY <1>1 DEF Done, PollAt
<1> QED  BY <1>3, <1>4 DEF t

LEMMA DoneCqe ==
    ASSUME NEW s \in Seq(Cqe)
    PROVE  /\ \A c \in Done(s) : c \in Cqe /\ c.kind = "poll"
           /\ Keys(s) = {Key(c) : c \in Done(s)}
BY DEF Done, Keys, PollAt

(* The queue without what was put aside. *)
LEMMA DropProp ==
    ASSUME NEW s \in Seq(Cqe), NEW h \in Nat, h <= Len(s)
    PROVE  LET r == SubSeq(s, h + 1, Len(s))
           IN  /\ r \in Seq(Cqe) /\ Len(r) = Len(s) - h
               /\ Len(s) \in Nat
               /\ DOMAIN r = 1 .. Len(s) - h
               /\ \A i \in DOMAIN r : r[i] = s[h + i]
<1> DEFINE r == SubSeq(s, h + 1, Len(s))
<1>1. Len(s) \in Nat /\ \A i \in h + 1 .. Len(s) : s[i] \in Cqe
  OBVIOUS
<1>2. /\ r \in Seq(Cqe)
      /\ Len(r) = IF h + 1 <= Len(s) THEN Len(s) - (h + 1) + 1 ELSE 0
      /\ \A i \in 1 .. Len(s) - (h + 1) + 1 : r[i] = s[h + 1 + i - 1]
  BY <1>1, SubSeqProperties
<1> HIDE DEF r
<1>3. Len(r) = Len(s) - h
  BY <1>1, <1>2
<1>4. DOMAIN r = 1 .. Len(s) - h
  BY <1>2, <1>3
<1>5. \A i \in 1 .. Len(s) - h : r[i] = s[h + i]
  BY <1>1, <1>2
<1> QED  BY <1>1, <1>2, <1>3, <1>4, <1>5 DEF r

LEMMA RestProp ==
    ASSUME cq \in Seq(Cqe), head \in Nat, head <= Len(cq)
    PROVE  /\ Rest \in Seq(Cqe) /\ Len(Rest) = Len(cq) - head
           /\ Len(cq) \in Nat
           /\ DOMAIN Rest = 1 .. Len(cq) - head
           /\ \A i \in DOMAIN Rest : Rest[i] = cq[head + i]
BY DropProp DEF Rest

LEMMA RestNext ==
    ASSUME cq \in Seq(Cqe), head \in Nat, head < Len(cq)
    PROVE  Rest # << >> /\ Head(Rest) = cq[head + 1]
<1>1. Len(Rest) \in Nat \ {0} /\ 1 \in DOMAIN Rest /\ Rest[1] = cq[head + 1]
      /\ Rest \in Seq(Cqe)
  BY RestProp
<1> QED  BY <1>1

LEMMA DropTail ==
    ASSUME NEW s \in Seq(Cqe), NEW h \in Nat, h < Len(s),
           NEW u \in Seq(Cqe), NEW k \in Nat, k <= Len(u),
           Len(u) - k = Len(s) - h - 1,
           \A i \in 1 .. Len(s) - h - 1 : u[k + i] = s[h + 1 + i]
    PROVE  SubSeq(u, k + 1, Len(u)) = Tail(SubSeq(s, h + 1, Len(s)))
<1> DEFINE r == SubSeq(s, h + 1, Len(s))
           t == Tail(r)
           v == SubSeq(u, k + 1, Len(u))
<1>1. r \in Seq(Cqe) /\ Len(r) = Len(s) - h /\ Len(s) \in Nat
      /\ \A i \in 1 .. Len(s) - h : r[i] = s[h + i]
  BY DropProp
<1>2. v \in Seq(Cqe) /\ Len(v) = Len(u) - k
      /\ \A i \in 1 .. Len(u) - k : v[i] = u[k + i]
  BY DropProp
<1> HIDE DEF r, v
<1>3. r # << >>
  BY <1>1
<1>4. t \in Seq(Cqe) /\ Len(t) = Len(s) - h - 1
      /\ \A i \in 1 .. Len(s) - h - 1 : t[i] = r[i + 1]
  BY <1>1, <1>3, TailCqe
<1> HIDE DEF t
<1>5. \A i \in 1 .. Len(s) - h - 1 : t[i] = s[h + 1 + i]
  BY <1>1, <1>4
<1>6. Len(v) = Len(t) /\ \A i \in 1 .. Len(v) : v[i] = t[i]
  BY <1>2, <1>4, <1>5
<1>7. v = t
  BY <1>2, <1>4, <1>6, SeqEqual
<1> QED  BY <1>7 DEF v, t, r

(* The next completion is taken, wherever the entries before it go. *)
LEMMA RestTail ==
    ASSUME cq \in Seq(Cqe), head \in Nat, head < Len(cq),
           \/ cq' = << >> /\ head' = 0 /\ head + 1 = Len(cq)
           \/ cq' = cq /\ head' = head + 1
           \/ cq' = SubSeq(cq, head + 2, Len(cq)) /\ head' = 0
           \/ cq' = Tail(cq) /\ head' = head /\ head = 0
    PROVE  /\ cq' \in Seq(Cqe) /\ head' \in Nat /\ head' <= Len(cq')
           /\ Rest' = Tail(Rest)
<1>1. Len(cq) \in Nat
  OBVIOUS
<1>2. ASSUME cq' \in Seq(Cqe), head' \in Nat, head' <= Len(cq'),
             Len(cq') - head' = Len(cq) - head - 1,
             \A i \in 1 .. Len(cq) - head - 1 : cq'[head' + i] = cq[head + 1 + i]
      PROVE  Rest' = Tail(Rest)
  BY <1>2, DropTail DEF Rest
<1>3. CASE cq' = << >> /\ head' = 0 /\ head + 1 = Len(cq)
  BY <1>1, <1>2, <1>3
<1>4. CASE cq' = cq /\ head' = head + 1
  BY <1>1, <1>2, <1>4
<1>5. CASE cq' = SubSeq(cq, head + 2, Len(cq)) /\ head' = 0
  <2>1. \A i \in head + 2 .. Len(cq) : cq[i] \in Cqe
    BY <1>1
  <2>2. /\ cq' \in Seq(Cqe)
        /\ Len(cq') = IF head + 2 <= Len(cq) THEN Len(cq) - (head + 2) + 1 ELSE 0
        /\ \A i \in 1 .. Len(cq) - (head + 2) + 1 : cq'[i] = cq[head + 2 + i - 1]
    BY <1>1, <1>5, <2>1, SubSeqProperties
  <2>3. Len(cq') = Len(cq) - head - 1
    BY <1>1, <2>2
  <2>4. \A i \in 1 .. Len(cq) - head - 1 : cq'[0 + i] = cq[head + 1 + i]
    BY <1>1, <2>2
  <2> QED  BY <1>1, <1>2, <1>5, <2>2, <2>3, <2>4
<1>6. CASE cq' = Tail(cq) /\ head' = head /\ head = 0
  <2>1. cq # << >>
    BY <1>1
  <2>2. cq' \in Seq(Cqe) /\ Len(cq') = Len(cq) - 1
        /\ \A i \in 1 .. Len(cq) - 1 : cq'[i] = cq[i + 1]
    BY <1>6, <2>1, TailCqe
  <2>3. \A i \in 1 .. Len(cq) - head - 1 : cq'[head' + i] = cq[head + 1 + i]
    BY <1>1, <1>6, <2>2
  <2> QED  BY <1>1, <1>2, <1>6, <2>2, <2>3
<1> QED  BY <1>3, <1>4, <1>5, <1>6

LEMMA RestAppend ==
    ASSUME cq \in Seq(Cqe), head \in Nat, head <= Len(cq), NEW c \in Cqe,
           cq' = Append(cq, c), head' = head
    PROVE  /\ cq' \in Seq(Cqe) /\ head' <= Len(cq')
           /\ Rest' = Append(Rest, c)
<1>1. /\ Rest \in Seq(Cqe) /\ Len(Rest) = Len(cq) - head /\ Len(cq) \in Nat
      /\ \A i \in 1 .. Len(cq) - head : Rest[i] = cq[head + i]
  BY RestProp
<1>2. cq' \in Seq(Cqe) /\ Len(cq') = Len(cq) + 1 /\ cq'[Len(cq) + 1] = c
      /\ \A i \in 1 .. Len(cq) : cq'[i] = cq[i]
  BY AppendCqe
<1> DEFINE r == Rest
           t == Append(r, c)
<1>3. t \in Seq(Cqe) /\ Len(t) = Len(cq) - head + 1
      /\ t[Len(cq) - head + 1] = c
      /\ \A i \in 1 .. Len(cq) - head : t[i] = cq[head + i]
  BY <1>1, AppendCqe
<1>4. \A i \in head + 1 .. Len(cq) + 1 : cq'[i] \in Cqe
  BY <1>2
<1>5. /\ Rest' \in Seq(Cqe)
      /\ Len(Rest') = IF head + 1 <= Len(cq) + 1
                      THEN Len(cq) + 1 - (head + 1) + 1 ELSE 0
      /\ \A i \in 1 .. Len(cq) + 1 - (head + 1) + 1 :
            Rest'[i] = cq'[head + 1 + i - 1]
  BY <1>1, <1>2, <1>4, SubSeqProperties DEF Rest
<1>6. Len(Rest') = Len(t)
  BY <1>1, <1>3, <1>5
<1>7. \A i \in 1 .. Len(Rest') : Rest'[i] = t[i]
  <2> SUFFICES ASSUME NEW i \in 1 .. Len(cq) - head + 1 PROVE Rest'[i] = t[i]
    BY <1>3, <1>6
  <2>1. Rest'[i] = cq'[head + i]
    BY <1>1, <1>5
  <2>2. CASE i = Len(cq) - head + 1
    BY <1>1, <1>2, <1>3, <2>1, <2>2
  <2>3. CASE i \in 1 .. Len(cq) - head
    BY <1>1, <1>2, <1>3, <2>1, <2>3
  <2> QED  BY <1>1, <2>2, <2>3
<1> HIDE DEF t
<1>8. Rest' = t
  BY <1>3, <1>5, <1>6, <1>7, SeqEqual
<1> QED  BY <1>1, <1>2, <1>8 DEF t

-----------------------------------------------------------------------------
(* The steps of the table.                                                 *)

LEMMA SetFdEffect ==
    ASSUME UringAssumption, fds \in [Fds -> FdState],
           NEW f \in Fds, NEW events \in Interest,
           SetFd(f, events)
    PROVE  /\ fds' \in [Fds -> FdState]
           /\ fds'[f].used /\ fds'[f].events = events
           /\ fds'[f].active = fds[f].active
           /\ fds'[f].generation = IF fds[f].used THEN fds[f].generation
                                   ELSE (fds[f].generation + 1) % GenMod
           /\ \A g \in Fds : g # f => fds'[g] = fds[g]
<1> DEFINE gen == IF fds[f].used THEN fds[f].generation
                  ELSE (fds[f].generation + 1) % GenMod
           new == [fds[f] EXCEPT !.generation = gen, !.used = TRUE,
                                 !.events = events]
<1>1. gen \in 0 .. GenMod - 1
  BY DEF UringAssumption, FdState
<1>2. fds' = [fds EXCEPT ![f] = new]
  BY DEF SetFd
<1>3. new \in FdState
  <2>1. fds[f] \in FdState
    OBVIOUS
  <2> QED  BY <1>1, <2>1 DEF FdState, Interest
<1> HIDE DEF gen
<1>4. new.used /\ new.events = events /\ new.active = fds[f].active
      /\ new.generation = gen
  <2>1. fds[f] \in FdState
    OBVIOUS
  <2> QED  BY <2>1 DEF FdState
<1> HIDE DEF new
<1>5. /\ fds' \in [Fds -> FdState] /\ fds'[f] = new
      /\ \A g \in Fds : g # f => fds'[g] = fds[g]
  BY <1>2, <1>3
<1> QED  BY <1>4, <1>5 DEF gen

LEMMA ForgetEffect ==
    ASSUME fds \in [Fds -> FdState], open \in [Fds -> Regs \cup {NotRegistered}],
           ready \in [Fds -> SUBSET {"in", "out"}],
           NEW f \in Fds, Forget(f)
    PROVE  /\ fds' \in [Fds -> FdState]
           /\ ~fds'[f].used /\ ~fds'[f].active
           /\ fds'[f].generation = fds[f].generation
           /\ \A g \in Fds : g # f => fds'[g] = fds[g]
           /\ open' \in [Fds -> Regs \cup {NotRegistered}]
           /\ open'[f] = NotRegistered
           /\ \A g \in Fds : g # f => open'[g] = open[g]
           /\ ready' \in [Fds -> SUBSET {"in", "out"}]
           /\ pc' = "run" /\ fd' = NoFd
<1> DEFINE new == [fds[f] EXCEPT !.used = FALSE, !.active = FALSE,
                                 !.events = {}]
<1>1. fds' = [fds EXCEPT ![f] = new]
  BY DEF Forget
<1>2. fds[f] \in FdState
  OBVIOUS
<1>3. /\ new \in FdState /\ ~new.used /\ ~new.active
      /\ new.generation = fds[f].generation
  BY <1>2 DEF FdState
<1> HIDE DEF new
<1>4. /\ fds' \in [Fds -> FdState] /\ fds'[f] = new
      /\ \A g \in Fds : g # f => fds'[g] = fds[g]
  BY <1>1, <1>3
<1>5. /\ open' \in [Fds -> Regs \cup {NotRegistered}]
      /\ open'[f] = NotRegistered
      /\ \A g \in Fds : g # f => open'[g] = open[g]
      /\ ready' \in [Fds -> SUBSET {"in", "out"}]
      /\ pc' = "run" /\ fd' = NoFd
  BY DEF Forget
<1> QED  BY <1>3, <1>4, <1>5

(* A step that leaves the polls and completions alone. *)
LEMMA Still ==
    ASSUME UNCHANGED <<polls, saved, cq, head>>
    PROVE  /\ Rest' = Rest /\ AllKeys' = AllKeys /\ PollKeys' = PollKeys
           /\ Keys(Rest') = Keys(Rest)
           /\ UniqueInv => UniqueInv'
<1>1. Rest' = Rest
  BY DEF Rest
<1>2. PollKeys' = PollKeys
  BY DEF PollKeys, Key
<1>3. AllKeys' = AllKeys
  BY <1>1, <1>2 DEF AllKeys
<1>4. UniqueInv => UniqueInv'
  BY <1>1, <1>2 DEF UniqueInv
<1> QED  BY <1>1, <1>2, <1>3, <1>4

(* As many registrations as there are generations: none comes round. *)
NoWrap == NumRegs < GenMod

LEMMA ModSmall ==
    ASSUME NEW x \in Nat, NEW n \in Nat \ {0}, x < n
    PROVE  x % n = x
OBVIOUS

LEMMA Fields ==
    /\ \A p \in Poll : p.fd \in Fds /\ p.generation \in Nat
    /\ \A c \in Cqe : c.fd \in Fds /\ c.generation \in Nat
<1>1. \A g \in 0 .. GenMod - 1 : g \in Nat
  OBVIOUS
<1> QED  BY <1>1 DEF Poll, Cqe

(* No outstanding poll is newer than its descriptor. *)
LEMMA KeysTimely ==
    ASSUME Inv
    PROVE  \A k \in AllKeys : /\ k[1] \in Fds /\ k[2] \in Nat
                              /\ k = <<k[1], k[2]>>
                              /\ k[2] <= fds[k[1]].generation
<1> USE DEF Key, Timely
<1>1. \A k \in PollKeys : /\ k[1] \in Fds /\ k[2] \in Nat
                          /\ k = <<k[1], k[2]>>
                          /\ k[2] <= fds[k[1]].generation
  BY DEF Inv, TypeOK, TimelyInv, PollKeys, Poll
<1>2. ASSUME NEW s \in Seq(Cqe), \A c \in Done(s) : Timely(c)
      PROVE  \A k \in Keys(s) : /\ k[1] \in Fds /\ k[2] \in Nat
                                /\ k = <<k[1], k[2]>>
                                /\ k[2] <= fds[k[1]].generation
  <2> SUFFICES ASSUME NEW c \in Done(s)
               PROVE  LET k == Key(c)
                      IN  /\ k[1] \in Fds /\ k[2] \in Nat
                          /\ k = <<k[1], k[2]>>
                          /\ k[2] <= fds[k[1]].generation
    BY DoneCqe
  <2> QED  BY <1>2, DoneCqe, Fields
<1>3. Rest \in Seq(Cqe) /\ saved \in Seq(Cqe)
  BY RestProp DEF Inv, TypeOK, PcInv
<1>4. /\ \A c \in Done(Rest) : Timely(c)
      /\ \A c \in Done(saved) : Timely(c)
  BY DEF Inv, TimelyInv
<1> QED  BY <1>1, <1>2, <1>3, <1>4 DEF AllKeys

LEMMA AddInv ==
    ASSUME UringAssumption, NoWrap, Inv, NEW f \in Fds, Add(f)
    PROVE  Inv'
<1>1. /\ TypeOK /\ RegInv /\ PcInv /\ CancelInv /\ UniqueInv
      /\ TimelyInv /\ ActiveInv
  BY DEF Inv
<1>2. /\ pc = "run" /\ open[f] = NotRegistered /\ regs < NumRegs
      /\ SetFd(f, {"in"})
      /\ open' = [open EXCEPT ![f] = regs + 1] /\ regs' = regs + 1
      /\ ready' = [ready EXCEPT ![f] = {}]
      /\ UNCHANGED <<pc, fd, closing, saved, head, out_count, polls, removal,
                     cq, batch>>
  BY DEF Add, loopVars
<1>3. ~fds[f].used /\ ~fds[f].active /\ fds[f].generation \in Nat
      /\ fds[f].generation <= regs /\ regs \in Nat
  BY <1>1, <1>2 DEF TypeOK, RegInv, FdState
<1>4. {"in"} \in Interest
  BY DEF Interest
<1>5. /\ fds' \in [Fds -> FdState] /\ fds'[f].used /\ ~fds'[f].active
      /\ fds'[f].generation = fds[f].generation + 1
      /\ fds'[f].events = {"in"}
      /\ \A g \in Fds : g # f => fds'[g] = fds[g]
  <2>1. (fds[f].generation + 1) % GenMod = fds[f].generation + 1
    <3>1. fds[f].generation + 1 < GenMod
      BY <1>1, <1>2, <1>3 DEF UringAssumption, NoWrap, TypeOK
    <3> QED  BY <1>3, <3>1, ModSmall DEF UringAssumption
  <2> QED  BY <1>1, <1>2, <1>3, <1>4, <2>1, SetFdEffect DEF TypeOK
<1>6. /\ open' \in [Fds -> Regs \cup {NotRegistered}]
      /\ open'[f] = regs + 1
      /\ \A g \in Fds : g # f => open'[g] = open[g]
      /\ regs' \in 0 .. NumRegs /\ regs + 1 # NotRegistered
      /\ ready' \in [Fds -> SUBSET {"in", "out"}]
  BY <1>1, <1>2 DEF TypeOK, Regs, UringAssumption, NotRegistered
<1>7. Rest' = Rest /\ AllKeys' = AllKeys /\ UniqueInv'
  BY <1>1, <1>2, Still
<1>8. TypeOK'
  BY <1>1, <1>2, <1>5, <1>6 DEF TypeOK
<1>9. RegInv'
  <2>1. ASSUME NEW g \in Fds
        PROVE  /\ fds'[g].used <=> open'[g] # NotRegistered
               /\ fds'[g].used => fds'[g].events \in Interest
               /\ fds'[g].active => fds'[g].used
               /\ fds'[g].generation <= regs'
    <3>1. CASE g = f
      <4>1. fds'[f].generation <= regs'
        BY <1>2, <1>3, <1>5
      <4>2. open'[f] # NotRegistered
        BY <1>6
      <4> QED  BY <1>4, <1>5, <3>1, <4>1, <4>2
    <3>2. CASE g # f
      <4>1. fds[g].generation \in Nat /\ regs \in Nat
        BY <1>1 DEF TypeOK, FdState
      <4>2. fds'[g] = fds[g] /\ open'[g] = open[g]
        BY <1>5, <1>6, <3>2
      <4> QED  BY <1>1, <1>2, <4>1, <4>2 DEF RegInv
    <3> QED  BY <3>1, <3>2
  <2> QED  BY <2>1 DEF RegInv
<1>10. PcInv'
  <2>1. \A e \in batch : e[1] \in Fds /\ e[1] # f
    BY <1>1, <1>2 DEF PcInv, TypeOK, Regs, NotRegistered
  <2> QED  BY <1>1, <1>2, <1>5, <1>6, <2>1 DEF PcInv
<1>11. CancelInv'
  BY <1>1, <1>2, <1>7 DEF CancelInv
<1>12. TimelyInv'
  <2>1. ASSUME NEW x, x.fd \in Fds, x.generation \in Nat, Timely(x)
        PROVE  Timely(x)'
    BY <1>3, <1>5, <1>6, <2>1 DEF Timely
  <2>2. \A p \in polls : p.fd \in Fds /\ p.generation \in Nat
    BY <1>1 DEF TypeOK, Poll
  <2>3. \A c \in Done(Rest) \cup Done(saved) : c.fd \in Fds /\ c.generation \in Nat
    <3>1. Rest \in Seq(Cqe) /\ saved \in Seq(Cqe)
      BY <1>1, RestProp DEF TypeOK, PcInv
    <3> QED  BY <3>1, DoneCqe, Fields
  <2> QED  BY <1>1, <1>2, <1>7, <2>1, <2>2, <2>3 DEF TimelyInv
<1>13. ActiveInv'
  <2>1. Current(f)' \notin AllKeys
    BY <1>3, <1>5, KeysTimely DEF Current
  <2>2. \A g \in Fds : g # f => Current(g)' = Current(g)
    BY <1>5 DEF Current
  <2> QED  BY <1>1, <1>5, <1>7, <2>1, <2>2 DEF ActiveInv
<1> QED  BY <1>7, <1>8, <1>9, <1>10, <1>11, <1>12, <1>13 DEF Inv

(* An outstanding poll stays timely if its descriptor is not touched,      *)
(* registered anew or removed.                                             *)
LEMMA TimelySame ==
    ASSUME TypeOK, head <= Len(cq), TimelyInv,
           polls' \subseteq polls,
           Done(Rest') \cup Done(saved') \subseteq Done(Rest) \cup Done(saved),
           \A g \in Fds :
              /\ fds'[g].generation = fds[g].generation
              /\ fds'[g].used => fds[g].used /\ open'[g] = open[g]
    PROVE  TimelyInv'
<1>1. ASSUME NEW x, x.fd \in Fds, Timely(x)
      PROVE  Timely(x)'
  BY <1>1 DEF Timely
<1>2. \A p \in polls : p.fd \in Fds
  BY Fields DEF TypeOK
<1>3. \A c \in Done(Rest) \cup Done(saved) : c.fd \in Fds
  <2>1. Rest \in Seq(Cqe) /\ saved \in Seq(Cqe)
    BY RestProp DEF TypeOK
  <2> QED  BY <2>1, DoneCqe, Fields
<1> QED  BY <1>1, <1>2, <1>3 DEF TimelyInv

(* A step that registers and removes nothing, and leaves the polls and     *)
(* completions alone.                                                      *)
LEMMA StillInv ==
    ASSUME Inv, UNCHANGED <<fds, open, regs, polls, saved, cq, head>>,
           TypeOK', PcInv', CancelInv'
    PROVE  Inv'
<1>1. /\ RegInv /\ UniqueInv /\ TimelyInv /\ ActiveInv
  BY DEF Inv
<1>2. Rest' = Rest /\ AllKeys' = AllKeys /\ UniqueInv'
  BY <1>1, Still
<1>3. RegInv'
  BY <1>1 DEF RegInv
<1>4. TimelyInv'
  BY <1>1, <1>2 DEF TimelyInv, Timely
<1>5. ActiveInv'
  BY <1>1, <1>2 DEF ActiveInv, Current
<1> QED  BY <1>2, <1>3, <1>4, <1>5 DEF Inv

LEMMA HandleInv ==
    ASSUME Inv, NEW e \in batch, Handle(e)
    PROVE  Inv'
<1>1. /\ TypeOK /\ RegInv /\ PcInv /\ CancelInv
  BY DEF Inv
<1>2. /\ pc = "run" /\ batch' = batch \ {e}
      /\ \/ pc' = pc /\ fd' = fd
         \/ pc' = "handle" /\ fd' = e[1]
      /\ UNCHANGED <<closing, fds, saved, head, out_count, polls, removal, cq,
                     ready, open, regs>>
  BY DEF Handle, stateVars, kernelVars
<1>3. /\ e[1] \in Fds /\ e[2] \in Regs /\ open[e[1]] = e[2]
      /\ fds[e[1]].used /\ ~fds[e[1]].active
      /\ \A d \in batch \ {e} : d[1] # e[1]
  <2>1. \A d \in batch : d[1] \in Fds /\ d[2] \in Regs /\ d = <<d[1], d[2]>>
                         /\ open[d[1]] = d[2] /\ ~fds[d[1]].active
    BY <1>1 DEF TypeOK, PcInv
  <2>2. \A d \in batch : d[1] = e[1] => d = e
    BY <2>1
  <2>3. e[2] # NotRegistered
    BY <2>1 DEF Regs, NotRegistered
  <2> QED  BY <1>1, <2>1, <2>2, <2>3 DEF RegInv
<1>4. TypeOK'
  BY <1>1, <1>2, <1>3 DEF TypeOK, PC
<1>5. PcInv'
  BY <1>1, <1>2, <1>3 DEF PcInv
<1>6. CancelInv'
  <2>1. Rest' = Rest
    BY <1>2, Still
  <2> QED  BY <1>1, <1>2, <2>1 DEF CancelInv
<1> QED  BY <1>2, <1>4, <1>5, <1>6, StillInv

LEMMA HandleModInv ==
    ASSUME UringAssumption, Inv, NEW events \in Interest, HandleMod(events)
    PROVE  Inv'
<1>1. /\ TypeOK /\ RegInv /\ PcInv /\ CancelInv /\ UniqueInv
      /\ TimelyInv /\ ActiveInv
  BY DEF Inv
<1>2. /\ pc = "handle" /\ SetFd(fd, events) /\ pc' = "run" /\ fd' = NoFd
      /\ \E r \in SUBSET ready[fd] : ready' = [ready EXCEPT ![fd] = r \ {"in"}]
      /\ UNCHANGED <<closing, saved, head, out_count, polls, removal, cq,
                     open, regs, batch>>
  BY DEF HandleMod, history
<1>3. fd \in Fds /\ fds[fd].used
  BY <1>1, <1>2 DEF PcInv
<1>4. /\ fds' \in [Fds -> FdState] /\ fds'[fd].events \in Interest
      /\ fds'[fd].used /\ fds'[fd].active = fds[fd].active
      /\ fds'[fd].generation = fds[fd].generation
      /\ \A g \in Fds : g # fd => fds'[g] = fds[g]
  BY <1>1, <1>2, <1>3, SetFdEffect DEF TypeOK
<1>5. \A g \in Fds : /\ fds'[g].used <=> fds[g].used
                     /\ fds'[g].active <=> fds[g].active
                     /\ fds'[g].generation = fds[g].generation
  BY <1>3, <1>4
<1>6. Rest' = Rest /\ AllKeys' = AllKeys /\ UniqueInv'
  BY <1>1, <1>2, Still
<1>7. TypeOK'
  <2>1. ready' \in [Fds -> SUBSET {"in", "out"}]
    BY <1>1, <1>2, <1>3 DEF TypeOK
  <2> QED  BY <1>1, <1>2, <1>4, <2>1 DEF TypeOK, PC
<1>8. RegInv'
  BY <1>1, <1>2, <1>4, <1>5 DEF RegInv
<1>9. PcInv'
  <2>1. \A e \in batch : e[1] \in Fds
    BY <1>1 DEF TypeOK
  <2> QED  BY <1>1, <1>2, <1>5, <2>1 DEF PcInv
<1>10. CancelInv'
  BY <1>1, <1>2, <1>6 DEF CancelInv
<1>11. TimelyInv'
  BY <1>1, <1>2, <1>5, <1>6, TimelySame DEF PcInv
<1>12. ActiveInv'
  BY <1>1, <1>5, <1>6 DEF ActiveInv, Current
<1> QED  BY <1>6, <1>7, <1>8, <1>9, <1>10, <1>11, <1>12 DEF Inv

LEMMA RemovableFacts ==
    ASSUME Inv, NEW f \in Fds, Removable(f)
    PROVE  /\ pc \in {"run", "handle"} /\ fds[f].used
           /\ \A e \in batch : e[1] # f
           /\ head = 0 /\ removal = NoFd
           /\ \A i \in DOMAIN Rest : Rest[i].kind # "cancel"
<1>1. RegInv /\ PcInv /\ CancelInv
  BY DEF Inv
<1>2. pc \in {"run", "handle"} /\ fds[f].used /\ \A e \in batch : e[1] # f
  BY <1>1 DEF Removable, RegInv, PcInv
<1> QED  BY <1>1, <1>2 DEF PcInv, CancelInv

LEMMA RemoveInactiveInv ==
    ASSUME Inv, NEW f \in Fds, RemoveInactive(f)
    PROVE  Inv'
<1>1. /\ TypeOK /\ RegInv /\ PcInv /\ CancelInv /\ UniqueInv
      /\ TimelyInv /\ ActiveInv
  BY DEF Inv
<1>2. /\ Removable(f) /\ ~fds[f].active /\ Forget(f)
      /\ UNCHANGED <<closing, saved, head, out_count, polls, removal, cq,
                     regs, batch>>
  BY DEF RemoveInactive
<1>3. /\ \A e \in batch : e[1] # f
      /\ head = 0 /\ removal = NoFd
      /\ \A i \in DOMAIN Rest : Rest[i].kind # "cancel"
  BY <1>2, RemovableFacts
<1>4. /\ fds' \in [Fds -> FdState]
      /\ ~fds'[f].used /\ ~fds'[f].active
      /\ fds'[f].generation = fds[f].generation
      /\ \A g \in Fds : g # f => fds'[g] = fds[g]
      /\ open' \in [Fds -> Regs \cup {NotRegistered}]
      /\ open'[f] = NotRegistered
      /\ \A g \in Fds : g # f => open'[g] = open[g]
      /\ ready' \in [Fds -> SUBSET {"in", "out"}]
      /\ pc' = "run" /\ fd' = NoFd
  BY <1>1, <1>2, ForgetEffect DEF TypeOK
<1>5. Rest' = Rest /\ AllKeys' = AllKeys /\ UniqueInv'
  BY <1>1, <1>2, Still
<1>6. TypeOK'
  BY <1>1, <1>2, <1>4 DEF TypeOK, PC
<1>7. RegInv'
  BY <1>1, <1>2, <1>4 DEF RegInv
<1>8. PcInv'
  <2>1. \A e \in batch : e[1] \in Fds
    BY <1>1 DEF TypeOK
  <2> QED  BY <1>1, <1>2, <1>3, <1>4, <2>1 DEF PcInv
<1>9. CancelInv'
  BY <1>1, <1>2, <1>3, <1>5 DEF CancelInv
<1>10. TimelyInv'
  <2>1. \A g \in Fds : /\ fds'[g].generation = fds[g].generation
                       /\ fds'[g].used => fds[g].used /\ open'[g] = open[g]
    BY <1>4
  <2> QED  BY <1>1, <1>2, <1>5, <2>1, TimelySame DEF PcInv
<1>11. ActiveInv'
  BY <1>1, <1>4, <1>5 DEF ActiveInv, Current
<1> QED  BY <1>5, <1>6, <1>7, <1>8, <1>9, <1>10, <1>11 DEF Inv

LEMMA RemoveActiveInv ==
    ASSUME Inv, NEW f \in Fds, RemoveActive(f)
    PROVE  Inv'
<1>1. /\ TypeOK /\ PcInv /\ CancelInv
  BY DEF Inv
<1>2. /\ Removable(f) /\ fds[f].active
      /\ removal' = f /\ pc' = "drain" /\ fd' = f /\ head' = 0
      /\ UNCHANGED <<closing, fds, saved, out_count, polls, cq, ready, open,
                     regs, batch>>
  BY DEF RemoveActive, history
<1>3. /\ fds[f].used /\ \A e \in batch : e[1] # f
      /\ head' = head /\ removal = NoFd
      /\ \A i \in DOMAIN Rest : Rest[i].kind # "cancel"
  BY <1>2, RemovableFacts
<1>4. TypeOK'
  BY <1>1, <1>2 DEF TypeOK, PC
<1>5. PcInv'
  BY <1>1, <1>2, <1>3 DEF PcInv
<1>6. CancelInv'
  <2>1. Rest' = Rest
    BY <1>2, <1>3, Still
  <2> QED  BY <1>1, <1>2, <1>3, <2>1 DEF CancelInv
<1> QED  BY <1>2, <1>3, <1>4, <1>5, <1>6, StillInv

(* The steps that change neither table, polls nor completions. *)
LEMMA QuietInv ==
    ASSUME Inv,
           \/ Enter \/ CollectDone \/ Stop
           \/ \E f \in Fds, what \in {"in", "out"} : BecomeReady(f, what)
    PROVE  Inv'
<1> USE DEF stateVars, kernelVars, history, loopVars
<1>1. /\ TypeOK /\ PcInv /\ CancelInv
  BY DEF Inv
<1>2. UNCHANGED <<fd, fds, saved, head, out_count, polls, removal, cq, open,
                  regs, batch>>
  BY DEF Enter, CollectDone, Stop, BecomeReady
<1>3. \/ pc = "enter" /\ pc' = "collect"
      \/ pc = "collect" /\ pc' = "run"
      \/ pc' = pc
  BY DEF Enter, CollectDone, Stop, BecomeReady
<1>4. TypeOK'
  <2>1. closing' \in BOOLEAN
    BY <1>1 DEF Enter, CollectDone, Stop, BecomeReady, TypeOK
  <2>2. ready' \in [Fds -> SUBSET {"in", "out"}]
    BY <1>1 DEF Enter, CollectDone, Stop, BecomeReady, TypeOK
  <2> QED  BY <1>1, <1>2, <1>3, <2>1, <2>2 DEF TypeOK, PC
<1>5. PcInv'
  BY <1>1, <1>2, <1>3 DEF PcInv
<1>6. CancelInv'
  <2>1. Rest' = Rest
    BY <1>2, Still
  <2> QED  BY <1>1, <1>2, <1>3, <2>1 DEF CancelInv
<1> QED  BY <1>2, <1>4, <1>5, <1>6, StillInv

(* The next completion of the ring is taken. *)
LEMMA TakeRest ==
    ASSUME Inv, head < Len(cq),
           \/ cq' = << >> /\ head' = 0 /\ head + 1 = Len(cq)
           \/ cq' = cq /\ head' = head + 1
           \/ cq' = SubSeq(cq, head + 2, Len(cq)) /\ head' = 0
           \/ cq' = Tail(cq) /\ head' = head /\ head = 0
    PROVE  LET c == cq[head + 1]
           IN  /\ cq' \in Seq(Cqe) /\ head' \in Nat /\ head' <= Len(cq')
               /\ c \in Cqe
               /\ \A i \in DOMAIN Rest' :
                     i \in Nat \ {0} /\ i + 1 \in DOMAIN Rest /\ Rest'[i] = Rest[i + 1]
               /\ 1 \in DOMAIN Rest /\ Rest[1] = c
               /\ Distinct(Rest')
               /\ Done(Rest') \subseteq Done(Rest)
               /\ c.kind = "poll" =>
                     /\ c \in Done(Rest) /\ Key(c) \in Keys(Rest)
                     /\ Keys(Rest') = Keys(Rest) \ {Key(c)}
               /\ c.kind # "poll" => Keys(Rest') = Keys(Rest)
<1>1. cq \in Seq(Cqe) /\ head \in Nat /\ head <= Len(cq) /\ Distinct(Rest)
  BY DEF Inv, TypeOK, UniqueInv, PcInv
<1>2. /\ cq' \in Seq(Cqe) /\ head' \in Nat /\ head' <= Len(cq')
      /\ Rest' = Tail(Rest)
  BY <1>1, RestTail
<1>3. Rest \in Seq(Cqe) /\ Rest # << >> /\ Head(Rest) = cq[head + 1]
  BY <1>1, RestProp, RestNext
<1>4. /\ Head(Rest) \in Cqe /\ Head(Rest) = Rest[1] /\ 1 \in DOMAIN Rest
      /\ \A i \in DOMAIN Tail(Rest) :
            i \in Nat \ {0} /\ i + 1 \in DOMAIN Rest /\ Tail(Rest)[i] = Rest[i + 1]
  BY <1>3, TailCqe
<1>5. /\ Distinct(Tail(Rest))
      /\ Head(Rest).kind = "poll" =>
            /\ Key(Head(Rest)) \in Keys(Rest)
            /\ Keys(Tail(Rest)) = Keys(Rest) \ {Key(Head(Rest))}
      /\ Head(Rest).kind # "poll" => Keys(Tail(Rest)) = Keys(Rest)
  BY <1>1, <1>3, TailKeys
<1>6. /\ Done(Tail(Rest)) \subseteq Done(Rest)
      /\ Head(Rest).kind = "poll" => Head(Rest) \in Done(Rest)
  BY <1>3, TailDone
<1> QED  BY <1>2, <1>3, <1>4, <1>5, <1>6

LEMMA DrainSaveInv ==
    ASSUME Inv, DrainSave
    PROVE  Inv' /\ AllKeys' = AllKeys
<1> DEFINE c == cq[head + 1]
<1>1. /\ TypeOK /\ RegInv /\ PcInv /\ CancelInv /\ UniqueInv
      /\ TimelyInv /\ ActiveInv
  BY DEF Inv
<1>2. /\ pc = "drain" /\ head < Len(cq) /\ ~IsAnswer(c)
      /\ saved' = Append(saved, c)
      /\ \/ cq' = << >> /\ head' = 0 /\ head + 1 = Len(cq)
         \/ cq' = cq /\ head' = head + 1
      /\ UNCHANGED <<pc, fd, closing, fds, out_count, polls, removal, ready,
                     open, regs, batch>>
  BY DEF DrainSave, loopVars, history
<1>3. /\ cq' \in Seq(Cqe) /\ head' \in Nat /\ head' <= Len(cq')
      /\ c \in Cqe
      /\ \A i \in DOMAIN Rest' :
            i \in Nat \ {0} /\ i + 1 \in DOMAIN Rest /\ Rest'[i] = Rest[i + 1]
      /\ 1 \in DOMAIN Rest /\ Rest[1] = c
      /\ Distinct(Rest')
      /\ Done(Rest') \subseteq Done(Rest)
      /\ c.kind = "poll" =>
            /\ c \in Done(Rest) /\ Key(c) \in Keys(Rest)
            /\ Keys(Rest') = Keys(Rest) \ {Key(c)}
  BY <1>2, TakeRest
<1> HIDE DEF c
<1>4. c.kind = "poll"
  <2>1. c.kind # "cancel"
    BY <1>1, <1>2, <1>3 DEF CancelInv, IsAnswer
  <2> QED  BY <1>3, <2>1 DEF Cqe
<1>5. /\ Keys(saved') = Keys(saved) \cup {Key(c)}
      /\ Done(saved') = Done(saved) \cup {c}
      /\ Distinct(saved')
  <2>1. saved \in Seq(Cqe) /\ Distinct(saved) /\ Key(c) \notin Keys(saved)
    BY <1>1, <1>3, <1>4 DEF TypeOK, UniqueInv
  <2> QED  BY <1>2, <1>3, <1>4, <2>1, AppendKeys, AppendDone
<1>6. saved' \in Seq(Cqe) /\ Len(saved') = Len(saved) + 1 /\ Len(saved) \in Nat
      /\ \A i \in DOMAIN saved' : saved'[i].kind = "poll"
  <2>1. saved \in Seq(Cqe) /\ \A i \in DOMAIN saved : saved[i].kind = "poll"
    BY <1>1 DEF TypeOK, CancelInv
  <2> QED  BY <1>2, <1>3, <1>4, <2>1, AppendCqe
<1>7. PollKeys' = PollKeys /\ AllKeys' = AllKeys
  <2>1. PollKeys' = PollKeys
    BY <1>2 DEF PollKeys
  <2> QED  BY <1>3, <1>4, <1>5, <2>1 DEF AllKeys
<1>8. TypeOK'
  BY <1>1, <1>2, <1>3, <1>6 DEF TypeOK
<1>9. RegInv'
  BY <1>1, <1>2 DEF RegInv
<1>10. PcInv'
  <2>1. head' <= Len(saved')
    BY <1>1, <1>2, <1>6 DEF PcInv, TypeOK
  <2> QED  BY <1>1, <1>2, <1>3, <2>1 DEF PcInv
<1>11. CancelInv'
  <2>1. \A i, j \in DOMAIN Rest' :
           Rest'[i].kind = "cancel" /\ Rest'[j].kind = "cancel" => i = j
    BY <1>1, <1>3 DEF CancelInv
  <2> QED  BY <1>1, <1>2, <1>3, <1>6, <2>1 DEF CancelInv
<1>12. UniqueInv'
  BY <1>1, <1>2, <1>3, <1>4, <1>5, <1>7 DEF UniqueInv
<1>13. TimelyInv'
  BY <1>1, <1>2, <1>3, <1>4, <1>5, TimelySame DEF PcInv
<1>14. ActiveInv'
  BY <1>1, <1>2, <1>7 DEF ActiveInv, Current
<1> QED  BY <1>7, <1>8, <1>9, <1>10, <1>11, <1>12, <1>13, <1>14 DEF Inv

LEMMA DrainAnswerInv ==
    ASSUME Inv, DrainAnswer
    PROVE  Inv' /\ AllKeys' = AllKeys
<1> DEFINE c == cq[head + 1]
<1>1. /\ TypeOK /\ RegInv /\ PcInv /\ CancelInv /\ UniqueInv
      /\ TimelyInv /\ ActiveInv
  BY DEF Inv
<1>2. /\ pc = "drain" /\ head < Len(cq) /\ IsAnswer(c) /\ Forget(fd)
      /\ cq' = SubSeq(cq, head + 2, Len(cq)) /\ head' = 0
      /\ UNCHANGED <<closing, saved, out_count, polls, removal, regs, batch>>
  BY DEF DrainAnswer
<1>3. /\ cq' \in Seq(Cqe) /\ head' \in Nat /\ head' <= Len(cq')
      /\ \A i \in DOMAIN Rest' :
            i \in Nat \ {0} /\ i + 1 \in DOMAIN Rest /\ Rest'[i] = Rest[i + 1]
      /\ 1 \in DOMAIN Rest /\ Rest[1] = c
      /\ Distinct(Rest')
      /\ Done(Rest') \subseteq Done(Rest)
      /\ c.kind # "poll" => Keys(Rest') = Keys(Rest)
  BY <1>2, TakeRest
<1> HIDE DEF c
<1>4. c.kind = "cancel" /\ Keys(Rest') = Keys(Rest)
  BY <1>2, <1>3 DEF IsAnswer
<1>5. removal = NoFd /\ \A i \in DOMAIN Rest' : Rest'[i].kind # "cancel"
  BY <1>1, <1>3, <1>4 DEF CancelInv
<1>6. fd \in Fds /\ \A e \in batch : e[1] # fd /\ e[1] \in Fds
  BY <1>1, <1>2 DEF PcInv, TypeOK
<1>7. /\ fds' \in [Fds -> FdState]
      /\ ~fds'[fd].used /\ ~fds'[fd].active
      /\ fds'[fd].generation = fds[fd].generation
      /\ \A g \in Fds : g # fd => fds'[g] = fds[g]
      /\ open' \in [Fds -> Regs \cup {NotRegistered}]
      /\ open'[fd] = NotRegistered
      /\ \A g \in Fds : g # fd => open'[g] = open[g]
      /\ ready' \in [Fds -> SUBSET {"in", "out"}]
      /\ pc' = "run" /\ fd' = NoFd
  BY <1>1, <1>2, <1>6, ForgetEffect DEF TypeOK
<1>8. PollKeys' = PollKeys /\ AllKeys' = AllKeys
  <2>1. PollKeys' = PollKeys
    BY <1>2 DEF PollKeys
  <2> QED  BY <1>2, <1>4, <2>1 DEF AllKeys
<1>9. TypeOK'
  BY <1>1, <1>2, <1>3, <1>7 DEF TypeOK, PC
<1>10. RegInv'
  BY <1>1, <1>2, <1>6, <1>7 DEF RegInv
<1>11. PcInv'
  <2>1. head' <= Len(saved')
    BY <1>1, <1>2 DEF TypeOK
  <2> QED  BY <1>1, <1>2, <1>3, <1>6, <1>7, <2>1 DEF PcInv
<1>12. CancelInv'
  BY <1>1, <1>2, <1>5 DEF CancelInv
<1>13. UniqueInv'
  BY <1>1, <1>2, <1>3, <1>4, <1>8 DEF UniqueInv
<1>14. TimelyInv'
  <2>1. \A g \in Fds : /\ fds'[g].generation = fds[g].generation
                       /\ fds'[g].used => fds[g].used /\ open'[g] = open[g]
    BY <1>6, <1>7
  <2> QED  BY <1>1, <1>2, <1>3, <2>1, TimelySame DEF PcInv
<1>15. ActiveInv'
  BY <1>1, <1>6, <1>7, <1>8 DEF ActiveInv, Current
<1> QED
  BY <1>8, <1>9, <1>10, <1>11, <1>12, <1>13, <1>14, <1>15 DEF Inv

(* h2_uring_finish_cqe takes a completion away and ends its poll. *)
LEMMA FinishEffect ==
    ASSUME Inv, pc = "collect", out_count < EventCap, UringAssumption,
           NEW c \in Cqe, c.kind = "poll", Timely(c), FinishCqe(c),
           Key(c) \in AllKeys, AllKeys' = AllKeys \ {Key(c)},
           UNCHANGED <<pc, fd, closing, polls, removal, ready, open, regs>>
    PROVE  /\ fds' \in [Fds -> FdState] /\ out_count' \in 0 .. EventCap
           /\ batch' \subseteq Fds \X Regs
           /\ \A e \in batch' : open[e[1]] = e[2] /\ ~fds'[e[1]].active
           /\ \A g \in Fds : /\ fds'[g].generation = fds[g].generation
                             /\ fds'[g].used <=> fds[g].used
           /\ RegInv' /\ ActiveInv'
<1>1. /\ TypeOK /\ RegInv /\ PcInv /\ ActiveInv
  BY DEF Inv
<1>2. c.fd \in Fds /\ c.generation \in Nat /\ c.reg \in Regs
  BY Fields DEF Cqe
<1>3. \A e \in batch : e[1] \in Fds /\ open[e[1]] = e[2] /\ ~fds[e[1]].active
  BY <1>1 DEF PcInv, TypeOK
<1>4. CASE c.generation # fds[c.fd].generation
  <2>1. UNCHANGED <<fds, out_count, batch>>
    BY <1>4 DEF FinishCqe
  <2>2. RegInv'
    BY <1>1, <2>1 DEF RegInv
  <2>3. \A g \in Fds : Current(g) # Key(c)
    BY <1>4 DEF Current, Key
  <2>4. ActiveInv'
    BY <1>1, <2>1, <2>3 DEF ActiveInv, Current
  <2> QED  BY <1>1, <1>3, <2>1, <2>2, <2>4 DEF TypeOK
<1>5. CASE c.generation = fds[c.fd].generation
  <2>1. fds' = [fds EXCEPT ![c.fd].active = FALSE]
    BY <1>5 DEF FinishCqe
  <2>2. fds[c.fd] \in FdState
    BY <1>1, <1>2 DEF TypeOK
  <2>3. /\ fds' \in [Fds -> FdState] /\ ~fds'[c.fd].active
        /\ fds'[c.fd].used = fds[c.fd].used
        /\ fds'[c.fd].generation = fds[c.fd].generation
        /\ fds'[c.fd].events = fds[c.fd].events
        /\ \A g \in Fds : g # c.fd => fds'[g] = fds[g]
    <3> DEFINE new == [fds[c.fd] EXCEPT !.active = FALSE]
    <3>1. /\ new \in FdState /\ ~new.active /\ new.used = fds[c.fd].used
          /\ new.generation = fds[c.fd].generation
          /\ new.events = fds[c.fd].events
      BY <2>2 DEF FdState
    <3>2. fds' = [fds EXCEPT ![c.fd] = new]
      BY <2>1
    <3> HIDE DEF new
    <3> QED  BY <1>1, <1>2, <3>1, <3>2 DEF TypeOK
  <2>4. \A g \in Fds : /\ fds'[g].generation = fds[g].generation
                       /\ fds'[g].used <=> fds[g].used
                       /\ fds'[g].events = fds[g].events
                       /\ fds'[g].active => fds[g].active
    BY <1>2, <2>3
  <2>5. RegInv'
    BY <1>1, <2>4 DEF RegInv
  <2>6. /\ Current(c.fd) = Key(c)
        /\ \A g \in Fds : Current(g)' = Current(g)
        /\ \A g \in Fds : g # c.fd => Current(g) # Key(c)
    BY <1>5, <2>4 DEF Current, Key
  <2>7. ActiveInv'
    BY <1>1, <1>2, <2>3, <2>6 DEF ActiveInv
  <2>8. /\ out_count' \in 0 .. EventCap
        /\ \/ batch' = batch
           \/ batch' = batch \cup {<<c.fd, c.reg>>} /\ open[c.fd] = c.reg
    BY <1>1, <1>5 DEF FinishCqe, TypeOK, Timely, UringAssumption
  <2>9. \A e \in batch' : e[1] \in Fds /\ open[e[1]] = e[2] /\ ~fds'[e[1]].active
    BY <1>2, <1>3, <2>3, <2>4, <2>8
  <2>10. batch' \subseteq Fds \X Regs
    BY <1>1, <1>2, <2>8 DEF TypeOK
  <2> QED  BY <2>3, <2>4, <2>5, <2>7, <2>8, <2>9, <2>10
<1> QED  BY <1>4, <1>5

LEMMA CollectSavedInv ==
    ASSUME UringAssumption, Inv, CollectSaved
    PROVE  /\ Inv' /\ AllKeys' \subseteq AllKeys
           /\ \A g \in Fds : /\ fds'[g].generation = fds[g].generation
                             /\ fds'[g].used <=> fds[g].used
<1> DEFINE c == Head(saved)
<1>1. /\ TypeOK /\ RegInv /\ PcInv /\ CancelInv /\ UniqueInv
      /\ TimelyInv /\ ActiveInv
  BY DEF Inv
<1>2. /\ pc = "collect" /\ out_count < EventCap /\ saved # << >>
      /\ FinishCqe(c) /\ saved' = Tail(saved)
      /\ UNCHANGED <<pc, fd, closing, head, polls, removal, cq, ready, open, regs>>
  BY DEF CollectSaved, loopVars, kernelVars
<1>3. saved \in Seq(Cqe) /\ Distinct(saved)
      /\ \A i \in DOMAIN saved : saved[i].kind = "poll"
  BY <1>1 DEF TypeOK, UniqueInv, CancelInv
<1>4. /\ c \in Cqe /\ c = saved[1] /\ 1 \in DOMAIN saved
      /\ saved' \in Seq(Cqe) /\ Len(saved') \in Nat
      /\ \A i \in DOMAIN saved' : i + 1 \in DOMAIN saved /\ saved'[i] = saved[i + 1]
  BY <1>2, <1>3, TailCqe
<1>5. c.kind = "poll"
  BY <1>3, <1>4
<1>6. /\ Distinct(saved') /\ Key(c) \in Keys(saved)
      /\ Keys(saved') = Keys(saved) \ {Key(c)}
  BY <1>2, <1>3, <1>5, TailKeys
<1>7. Done(saved') \subseteq Done(saved) /\ c \in Done(saved)
  BY <1>2, <1>3, <1>5, TailDone
<1> HIDE DEF c
<1>8. PollKeys' = PollKeys /\ Rest' = Rest
  BY <1>2 DEF PollKeys, Rest
<1>9. AllKeys' = AllKeys \ {Key(c)} /\ Key(c) \in AllKeys
  BY <1>1, <1>6, <1>8 DEF AllKeys, UniqueInv
<1>10. Timely(c)
  BY <1>1, <1>7 DEF TimelyInv
<1>11. /\ fds' \in [Fds -> FdState] /\ out_count' \in 0 .. EventCap
       /\ batch' \subseteq Fds \X Regs
       /\ \A e \in batch' : open[e[1]] = e[2] /\ ~fds'[e[1]].active
       /\ \A g \in Fds : /\ fds'[g].generation = fds[g].generation
                         /\ fds'[g].used <=> fds[g].used
       /\ RegInv' /\ ActiveInv'
  BY <1>2, <1>4, <1>5, <1>9, <1>10, FinishEffect
<1>12. TypeOK'
  BY <1>1, <1>2, <1>4, <1>11 DEF TypeOK
<1>13. PcInv'
  BY <1>1, <1>2, <1>4, <1>11 DEF PcInv
<1>14. CancelInv'
  <2>1. \A i \in DOMAIN saved' : saved'[i].kind = "poll"
    BY <1>3, <1>4
  <2> QED  BY <1>1, <1>2, <1>8, <2>1 DEF CancelInv
<1>15. UniqueInv'
  BY <1>1, <1>2, <1>6, <1>8 DEF UniqueInv
<1>16. TimelyInv'
  BY <1>1, <1>2, <1>7, <1>8, <1>11, TimelySame DEF PcInv
<1> QED  BY <1>9, <1>11, <1>12, <1>13, <1>14, <1>15, <1>16 DEF Inv

LEMMA CollectCqInv ==
    ASSUME UringAssumption, Inv, CollectCq
    PROVE  /\ Inv' /\ AllKeys' \subseteq AllKeys
           /\ \A g \in Fds : /\ fds'[g].generation = fds[g].generation
                             /\ fds'[g].used <=> fds[g].used
<1> DEFINE c == cq[head + 1]
<1>1. /\ TypeOK /\ RegInv /\ PcInv /\ CancelInv /\ UniqueInv
      /\ TimelyInv /\ ActiveInv
  BY DEF Inv
<1>2. /\ pc = "collect" /\ out_count < EventCap /\ cq # << >>
      /\ FinishCqe(Head(cq)) /\ cq' = Tail(cq)
      /\ UNCHANGED <<pc, fd, closing, saved, head, polls, removal, ready, open,
                     regs>>
  BY DEF CollectCq, loopVars
<1>3. head = 0 /\ head < Len(cq) /\ Head(cq) = c
  BY <1>1, <1>2 DEF PcInv, TypeOK
<1>4. /\ cq' \in Seq(Cqe) /\ head' \in Nat /\ head' <= Len(cq')
      /\ c \in Cqe
      /\ \A i \in DOMAIN Rest' :
            i \in Nat \ {0} /\ i + 1 \in DOMAIN Rest /\ Rest'[i] = Rest[i + 1]
      /\ 1 \in DOMAIN Rest /\ Rest[1] = c
      /\ Distinct(Rest')
      /\ Done(Rest') \subseteq Done(Rest)
      /\ c.kind = "poll" =>
            /\ c \in Done(Rest) /\ Key(c) \in Keys(Rest)
            /\ Keys(Rest') = Keys(Rest) \ {Key(c)}
  BY <1>2, <1>3, TakeRest
<1> HIDE DEF c
<1>5. /\ c.kind = "poll"
      /\ \A i \in DOMAIN Rest : Rest[i].kind # "cancel"
  <2>1. \A i \in DOMAIN Rest : Rest[i].kind # "cancel"
    BY <1>1, <1>2 DEF CancelInv
  <2> QED  BY <1>4, <2>1 DEF Cqe
<1>6. PollKeys' = PollKeys
  BY <1>2 DEF PollKeys
<1>7. AllKeys' = AllKeys \ {Key(c)} /\ Key(c) \in AllKeys
  BY <1>1, <1>2, <1>4, <1>5, <1>6 DEF AllKeys, UniqueInv
<1>8. Timely(c)
  BY <1>1, <1>4, <1>5 DEF TimelyInv
<1>9. /\ fds' \in [Fds -> FdState] /\ out_count' \in 0 .. EventCap
      /\ batch' \subseteq Fds \X Regs
      /\ \A e \in batch' : open[e[1]] = e[2] /\ ~fds'[e[1]].active
      /\ \A g \in Fds : /\ fds'[g].generation = fds[g].generation
                        /\ fds'[g].used <=> fds[g].used
      /\ RegInv' /\ ActiveInv'
  BY <1>2, <1>3, <1>4, <1>5, <1>7, <1>8, FinishEffect
<1>10. TypeOK'
  BY <1>1, <1>2, <1>4, <1>9 DEF TypeOK
<1>11. PcInv'
  BY <1>1, <1>2, <1>4, <1>9 DEF PcInv
<1>12. CancelInv'
  BY <1>1, <1>2, <1>4, <1>5 DEF CancelInv
<1>13. UniqueInv'
  BY <1>1, <1>2, <1>4, <1>5, <1>6 DEF UniqueInv
<1>14. TimelyInv'
  BY <1>1, <1>2, <1>4, <1>9, TimelySame DEF PcInv
<1> QED  BY <1>7, <1>9, <1>10, <1>11, <1>12, <1>13, <1>14 DEF Inv

(* h2_uring_submit_missing arms each descriptor once. *)
LEMMA WaitInv ==
    ASSUME UringAssumption, Inv, Wait
    PROVE  /\ Inv' /\ AllKeys' = AllKeys \cup {Current(f) : f \in Submitted}
           /\ \A g \in Fds : /\ fds'[g].generation = fds[g].generation
                             /\ fds'[g].used <=> fds[g].used
           /\ \A f \in Submitted : f \in Fds /\ fds[f].used
<1> DEFINE Armed(f) == [fd |-> f, generation |-> fds[f].generation,
                        events |-> fds[f].events, cancelled |-> FALSE,
                        reg |-> open[f]]
<1>1. /\ TypeOK /\ RegInv /\ PcInv /\ CancelInv /\ UniqueInv
      /\ TimelyInv /\ ActiveInv
  BY DEF Inv
<1>2. /\ pc = "run" /\ batch = {}
      /\ polls' = polls \cup {Armed(f) : f \in Submitted}
      /\ fds' = [f \in Fds |-> IF f \in Submitted
                               THEN [fds[f] EXCEPT !.active = TRUE] ELSE fds[f]]
      /\ out_count' = 0
      /\ pc' \in {"enter", "collect"}
      /\ UNCHANGED <<fd, closing, saved, head, removal, cq, ready, open, regs,
                     batch>>
  BY DEF Wait, history
<1>3. \A f \in Submitted : f \in Fds /\ fds[f].used /\ ~fds[f].active
  BY DEF Submitted, Missing
<1>4. ASSUME NEW f \in Submitted
      PROVE  /\ Armed(f) \in Poll /\ Key(Armed(f)) = Current(f)
             /\ Armed(f).fd = f /\ Armed(f).generation = fds[f].generation
             /\ Armed(f).reg = open[f]
  <2>1. fds[f] \in FdState /\ open[f] \in Regs /\ fds[f].events \in Interest
    BY <1>1, <1>3 DEF TypeOK, RegInv, Regs
  <2> QED  BY <1>3, <2>1 DEF Poll, FdState, Key, Current
<1> HIDE DEF Armed
<1>5. /\ fds' \in [Fds -> FdState]
      /\ \A g \in Fds : /\ fds'[g].generation = fds[g].generation
                        /\ fds'[g].used <=> fds[g].used
                        /\ fds'[g].events = fds[g].events
      /\ \A g \in Fds : fds'[g].active <=> (g \in Submitted \/ fds[g].active)
  <2>1. ASSUME NEW g \in Fds
        PROVE  /\ fds'[g] \in FdState
               /\ fds'[g].generation = fds[g].generation
               /\ fds'[g].used <=> fds[g].used
               /\ fds'[g].events = fds[g].events
               /\ fds'[g].active <=> (g \in Submitted \/ fds[g].active)
    <3>1. fds[g] \in FdState
      BY <1>1 DEF TypeOK
    <3>2. CASE g \in Submitted
      <4>1. fds'[g] = [fds[g] EXCEPT !.active = TRUE]
        BY <1>2, <3>2
      <4> QED  BY <3>1, <3>2, <4>1 DEF FdState
    <3>3. CASE g \notin Submitted
      BY <1>2, <3>1, <3>3
    <3> QED  BY <3>2, <3>3
  <2> QED  BY <1>2, <2>1
<1>6. Rest' = Rest
  BY <1>2 DEF Rest
<1>7. PollKeys' = PollKeys \cup {Current(f) : f \in Submitted}
  <2>1. PollKeys' = {Key(p) : p \in polls'}
    BY DEF PollKeys
  <2>2. {Key(p) : p \in polls'} \subseteq PollKeys \cup {Current(f) : f \in Submitted}
    BY <1>2, <1>4 DEF PollKeys
  <2>3. PollKeys \subseteq {Key(p) : p \in polls'}
    BY <1>2 DEF PollKeys
  <2>4. \A f \in Submitted : Current(f) \in {Key(p) : p \in polls'}
    BY <1>2, <1>4
  <2> QED  BY <2>1, <2>2, <2>3, <2>4
<1>8. AllKeys' = AllKeys \cup {Current(f) : f \in Submitted}
  BY <1>2, <1>6, <1>7 DEF AllKeys
<1>9. \A f \in Submitted : Current(f) \notin AllKeys
  BY <1>1, <1>3 DEF ActiveInv
<1>10. \A f, g \in Fds : Current(f) = Current(g) => f = g
  BY DEF Current
<1>11. TypeOK'
  <2>1. polls' \subseteq Poll
    BY <1>1, <1>2, <1>4 DEF TypeOK
  <2>2. 0 \in 0 .. EventCap
    BY DEF UringAssumption
  <2> QED  BY <1>1, <1>2, <1>5, <2>1, <2>2 DEF TypeOK, PC
<1>12. RegInv'
  BY <1>1, <1>2, <1>3, <1>5 DEF RegInv
<1>13. PcInv'
  BY <1>1, <1>2 DEF PcInv
<1>14. CancelInv'
  BY <1>1, <1>2, <1>6 DEF CancelInv
<1>15. UniqueInv'
  <2>1. ASSUME NEW p \in polls', NEW q \in polls', Key(p) = Key(q)
        PROVE  p = q
    <3>1. \A x \in polls : Key(x) \in AllKeys
      BY DEF AllKeys, PollKeys
    <3>2. CASE p \in polls /\ q \in polls
      BY <1>1, <2>1, <3>2 DEF UniqueInv
    <3>3. CASE p \in polls /\ q \notin polls
      BY <1>2, <1>4, <1>9, <2>1, <3>1, <3>3
    <3>4. CASE p \notin polls /\ q \in polls
      BY <1>2, <1>4, <1>9, <2>1, <3>1, <3>4
    <3>5. CASE p \notin polls /\ q \notin polls
      <4>1. PICK f \in Submitted : p = Armed(f)
        BY <1>2, <3>5
      <4>2. PICK g \in Submitted : q = Armed(g)
        BY <1>2, <3>5
      <4> QED  BY <1>3, <1>4, <1>10, <2>1, <4>1, <4>2
    <3> QED  BY <3>2, <3>3, <3>4, <3>5
  <2>2. PollKeys' \cap Keys(Rest) = {} /\ PollKeys' \cap Keys(saved) = {}
    BY <1>1, <1>7, <1>9 DEF UniqueInv, AllKeys
  <2> QED  BY <1>1, <1>2, <1>6, <2>1, <2>2 DEF UniqueInv
<1>16. TimelyInv'
  <2>1. ASSUME NEW x, x.fd \in Fds, Timely(x)
        PROVE  Timely(x)'
    BY <1>2, <1>5, <2>1 DEF Timely
  <2>2. \A p \in polls' : Timely(p)'
    <3>1. \A p \in polls : p.fd \in Fds /\ Timely(p)
      BY <1>1, Fields DEF TypeOK, TimelyInv
    <3>2. \A f \in Submitted : Timely(Armed(f)) /\ Armed(f).fd \in Fds
      <4>1. \A f \in Submitted : fds[f].generation <= fds[f].generation
        BY <1>1, <1>3 DEF TypeOK, FdState
      <4> QED  BY <1>3, <1>4, <4>1 DEF Timely
    <3> QED  BY <1>2, <2>1, <3>1, <3>2
  <2>3. \A c \in Done(Rest) \cup Done(saved) : c.fd \in Fds
    <3>1. Rest \in Seq(Cqe) /\ saved \in Seq(Cqe)
      BY <1>1, RestProp DEF TypeOK, PcInv
    <3> QED  BY <3>1, DoneCqe, Fields
  <2> QED  BY <1>1, <1>2, <1>6, <2>1, <2>2, <2>3 DEF TimelyInv
<1>17. ActiveInv'
  <2>1. \A g \in Fds : Current(g)' = Current(g)
    BY <1>5 DEF Current
  <2>2. \A g \in Fds : Current(g) \in AllKeys' <=>
                          (g \in Submitted \/ Current(g) \in AllKeys)
    BY <1>3, <1>8, <1>10
  <2> QED  BY <1>1, <1>5, <2>1, <2>2 DEF ActiveInv
<1> QED  BY <1>3, <1>5, <1>8,
            <1>11, <1>12, <1>13, <1>14, <1>15, <1>16, <1>17 DEF Inv

(* The kernel appends a completion. *)
LEMMA AddRest ==
    ASSUME Inv, NEW c \in Cqe, cq' = Append(cq, c), head' = head
    PROVE  /\ cq' \in Seq(Cqe) /\ head' <= Len(cq')
           /\ \A i \in DOMAIN Rest' :
                 \/ i \in DOMAIN Rest /\ Rest'[i] = Rest[i]
                 \/ i = Len(Rest) + 1 /\ Rest'[i] = c
           /\ Done(Rest') = IF c.kind = "poll" THEN Done(Rest) \cup {c}
                                               ELSE Done(Rest)
           /\ c.kind = "poll" => Keys(Rest') = Keys(Rest) \cup {Key(c)}
           /\ c.kind # "poll" => Keys(Rest') = Keys(Rest)
           /\ (c.kind = "poll" => Key(c) \notin Keys(Rest)) => Distinct(Rest')
<1>1. cq \in Seq(Cqe) /\ head \in Nat /\ head <= Len(cq) /\ Distinct(Rest)
  BY DEF Inv, TypeOK, PcInv, UniqueInv
<1>2. cq' \in Seq(Cqe) /\ head' <= Len(cq') /\ Rest' = Append(Rest, c)
  BY <1>1, RestAppend
<1>3. Rest \in Seq(Cqe)
  BY <1>1, RestProp
<1>4. \A i \in DOMAIN Append(Rest, c) :
         \/ i \in DOMAIN Rest /\ Append(Rest, c)[i] = Rest[i]
         \/ i = Len(Rest) + 1 /\ Append(Rest, c)[i] = c
  BY <1>3, AppendCqe
<1> QED  BY <1>1, <1>2, <1>3, <1>4, AppendKeys, AppendDone

LEMMA CompleteInv ==
    ASSUME Inv, NEW p \in polls, Complete(p)
    PROVE  Inv' /\ AllKeys' = AllKeys
<1> DEFINE c == [kind |-> "poll", fd |-> p.fd,
                 generation |-> p.generation, reg |-> p.reg,
                 res |-> IF p.cancelled THEN "cancelled" ELSE "ready"]
<1>1. /\ TypeOK /\ RegInv /\ PcInv /\ CancelInv /\ UniqueInv
      /\ TimelyInv /\ ActiveInv
  BY DEF Inv
<1>2. /\ polls' = polls \ {p} /\ cq' = Append(cq, c)
      /\ UNCHANGED <<pc, fd, closing, fds, saved, head, out_count, removal,
                     ready, open, regs, batch>>
  BY DEF Complete, loopVars, stateVars, history
<1>3. /\ c \in Cqe /\ c.kind = "poll" /\ Key(c) = Key(p)
      /\ c.fd = p.fd /\ c.generation = p.generation /\ c.reg = p.reg
  <2>1. p \in Poll
    BY <1>1 DEF TypeOK
  <2> QED  BY <2>1 DEF Poll, Cqe, Key
<1> HIDE DEF c
<1>4. /\ Key(p) \in PollKeys /\ Key(p) \notin Keys(Rest)
      /\ Key(p) \notin Keys(saved)
  BY <1>1 DEF UniqueInv, PollKeys
<1>5. /\ cq' \in Seq(Cqe) /\ head' <= Len(cq')
      /\ \A i \in DOMAIN Rest' :
            \/ i \in DOMAIN Rest /\ Rest'[i] = Rest[i]
            \/ Rest'[i] = c
      /\ Done(Rest') = Done(Rest) \cup {c}
      /\ Keys(Rest') = Keys(Rest) \cup {Key(p)}
      /\ Distinct(Rest')
  BY <1>2, <1>3, <1>4, AddRest
<1>6. PollKeys' = PollKeys \ {Key(p)}
  <2>1. PollKeys' = {Key(q) : q \in polls \ {p}}
    BY <1>2 DEF PollKeys
  <2>2. \A q \in polls : Key(q) = Key(p) => q = p
    BY <1>1 DEF UniqueInv
  <2> QED  BY <2>1, <2>2 DEF PollKeys
<1>7. AllKeys' = AllKeys
  BY <1>2, <1>4, <1>5, <1>6 DEF AllKeys
<1>8. TypeOK'
  BY <1>1, <1>2, <1>5 DEF TypeOK
<1>9. RegInv'
  BY <1>1, <1>2 DEF RegInv
<1>10. PcInv'
  BY <1>1, <1>2, <1>5 DEF PcInv
<1>11. CancelInv'
  <2>1. \A i \in DOMAIN Rest' : Rest'[i].kind = "cancel" =>
           i \in DOMAIN Rest /\ Rest'[i] = Rest[i]
    BY <1>3, <1>5
  <2> QED  BY <1>1, <1>2, <2>1 DEF CancelInv
<1>12. UniqueInv'
  <2>1. /\ PollKeys' \cap Keys(Rest') = {} /\ PollKeys' \cap Keys(saved) = {}
        /\ Keys(Rest') \cap Keys(saved) = {}
    BY <1>1, <1>4, <1>5, <1>6 DEF UniqueInv
  <2> QED  BY <1>1, <1>2, <1>5, <2>1 DEF UniqueInv
<1>13. TimelyInv'
  <2>1. Timely(c)
    BY <1>1, <1>3 DEF TimelyInv, Timely
  <2> QED  BY <1>1, <1>2, <1>5, <2>1 DEF TimelyInv, Timely
<1>14. ActiveInv'
  BY <1>1, <1>2, <1>7 DEF ActiveInv, Current
<1> QED  BY <1>7, <1>8, <1>9, <1>10, <1>11, <1>12, <1>13, <1>14 DEF Inv

LEMMA AnswerRemovalInv ==
    ASSUME Inv, AnswerRemoval
    PROVE  Inv' /\ AllKeys' = AllKeys
<1> DEFINE found == {p \in polls : Matches(p, removal) /\ ~p.cancelled}
           flip(p) == IF p \in found THEN [p EXCEPT !.cancelled = TRUE] ELSE p
           c == [kind |-> "cancel", fd |-> removal,
                 generation |-> fds[removal].generation, reg |-> open[removal],
                 res |-> IF found = {} THEN "enoent" ELSE "ok"]
<1>1. /\ TypeOK /\ RegInv /\ PcInv /\ CancelInv /\ UniqueInv
      /\ TimelyInv /\ ActiveInv
  BY DEF Inv
<1>2. /\ removal # NoFd /\ polls' = {flip(p) : p \in polls}
      /\ cq' = Append(cq, c) /\ removal' = NoFd
      /\ UNCHANGED <<pc, fd, closing, fds, saved, head, out_count,
                     ready, open, regs, batch>>
  BY DEF AnswerRemoval, loopVars, stateVars, history
<1>3. /\ pc = "drain" /\ removal = fd /\ fd \in Fds /\ fds[fd].used
      /\ \A i \in DOMAIN Rest : Rest[i].kind # "cancel"
  BY <1>1, <1>2 DEF CancelInv, PcInv
<1>4. /\ c \in Cqe /\ c.kind = "cancel" /\ c.fd = fd
      /\ c.generation = fds[fd].generation
  <2>1. fds[fd] \in FdState /\ open[fd] \in Regs
    BY <1>1, <1>3 DEF TypeOK, RegInv, Regs
  <2> QED  BY <1>3, <2>1 DEF Cqe, FdState
<1>5. \A p \in polls : /\ flip(p) \in Poll /\ Key(flip(p)) = Key(p)
                       /\ flip(p).fd = p.fd /\ flip(p).reg = p.reg
                       /\ flip(p).generation = p.generation
  <2>1. \A p \in polls : p \in Poll
    BY <1>1 DEF TypeOK
  <2>2. \A p \in Poll : LET q == [p EXCEPT !.cancelled = TRUE]
                        IN  /\ q \in Poll /\ Key(q) = Key(p) /\ q.fd = p.fd
                            /\ q.reg = p.reg /\ q.generation = p.generation
    BY DEF Poll, Key
  <2> QED  BY <2>1, <2>2
<1> HIDE DEF c, flip, found
<1>6. /\ cq' \in Seq(Cqe) /\ head' <= Len(cq')
      /\ \A i \in DOMAIN Rest' :
            \/ i \in DOMAIN Rest /\ Rest'[i] = Rest[i]
            \/ i = Len(Rest) + 1 /\ Rest'[i] = c
      /\ Done(Rest') = Done(Rest) /\ Keys(Rest') = Keys(Rest)
      /\ Distinct(Rest')
  BY <1>2, <1>4, AddRest
<1>7. PollKeys' = PollKeys /\ AllKeys' = AllKeys
  <2>1. PollKeys' = {Key(q) : q \in {flip(p) : p \in polls}}
    BY <1>2 DEF PollKeys
  <2>2. PollKeys' = PollKeys
    BY <1>5, <2>1 DEF PollKeys
  <2> QED  BY <1>2, <1>6, <2>2 DEF AllKeys
<1>8. TypeOK'
  BY <1>1, <1>2, <1>5, <1>6 DEF TypeOK
<1>9. RegInv'
  BY <1>1, <1>2 DEF RegInv
<1>10. PcInv'
  BY <1>1, <1>2, <1>6 DEF PcInv
<1>11. CancelInv'
  <2>1. \A i \in DOMAIN Rest' : Rest'[i].kind = "cancel" =>
           i = Len(Rest) + 1 /\ Rest'[i] = c
    BY <1>3, <1>6
  <2> QED  BY <1>1, <1>2, <1>3, <1>4, <2>1 DEF CancelInv
<1>12. UniqueInv'
  <2>1. ASSUME NEW p \in polls', NEW q \in polls', Key(p) = Key(q)
        PROVE  p = q
    <3>1. PICK x \in polls : p = flip(x)
      BY <1>2
    <3>2. PICK y \in polls : q = flip(y)
      BY <1>2
    <3>3. x = y
      BY <1>1, <1>5, <2>1, <3>1, <3>2 DEF UniqueInv
    <3> QED  BY <3>1, <3>2, <3>3
  <2> QED  BY <1>1, <1>2, <1>6, <1>7, <2>1 DEF UniqueInv
<1>13. TimelyInv'
  <2>1. \A p \in polls : Timely(flip(p))
    BY <1>1, <1>5 DEF TimelyInv, Timely
  <2> QED  BY <1>1, <1>2, <1>6, <2>1 DEF TimelyInv, Timely
<1>14. ActiveInv'
  BY <1>1, <1>2, <1>7 DEF ActiveInv, Current
<1> QED  BY <1>7, <1>8, <1>9, <1>10, <1>11, <1>12, <1>13, <1>14 DEF Inv

LEMMA InitInv ==
    ASSUME UringAssumption, Init
    PROVE  Inv
<1>1. TypeOK
  <2>1. [used |-> FALSE, active |-> FALSE, generation |-> 0, events |-> {}]
        \in FdState
    BY DEF UringAssumption, FdState
  <2>2. fds \in [Fds -> FdState]
    BY <2>1 DEF Init
  <2>3. open \in [Fds -> Regs \cup {NotRegistered}]
        /\ ready \in [Fds -> SUBSET {"in", "out"}]
    BY DEF Init
  <2>4. 0 \in Nat /\ 0 \in 0 .. EventCap /\ 0 \in 0 .. NumRegs
    BY DEF UringAssumption
  <2>5. << >> \in Seq(Cqe)
    OBVIOUS
  <2> QED  BY <2>2, <2>3, <2>4, <2>5 DEF Init, TypeOK, PC
<1>2. Rest = << >> /\ saved = << >> /\ polls = {}
  <2>1. cq = << >> /\ head = 0
    BY DEF Init
  <2>2. Rest \in Seq(Cqe) /\ Len(Rest) = 0
    BY <1>1, <2>1, RestProp DEF TypeOK
  <2> QED  BY <2>2 DEF Init
<1>3. \A f \in Fds : fds[f] = [used |-> FALSE, active |-> FALSE,
                               generation |-> 0, events |-> {}]
  BY DEF Init
<1>4. PollKeys = {} /\ Keys(Rest) = {} /\ Keys(saved) = {}
      /\ Done(Rest) = {} /\ Done(saved) = {} /\ Distinct(Rest) /\ Distinct(saved)
  BY <1>2 DEF PollKeys, Keys, Done, Distinct, PollAt
<1>5. RegInv
  BY <1>3 DEF Init, RegInv
<1>6. PcInv
  BY DEF Init, PcInv
<1>7. CancelInv
  BY <1>2 DEF Init, CancelInv
<1>8. UniqueInv
  BY <1>2, <1>4 DEF UniqueInv
<1>9. TimelyInv
  BY <1>2, <1>4 DEF TimelyInv
<1>10. ActiveInv
  BY <1>3 DEF ActiveInv
<1> QED  BY <1>1, <1>5, <1>6, <1>7, <1>8, <1>9, <1>10 DEF Inv

LEMMA StepInv ==
    ASSUME UringAssumption, NoWrap, Inv, [Next]_vars
    PROVE  Inv'
<1>1. CASE UNCHANGED vars
  <2>1. UNCHANGED <<pc, fd, closing, fds, saved, head, out_count, polls,
                    removal, cq, ready, open, regs, batch>>
    BY <1>1 DEF vars, loopVars, stateVars, kernelVars, history
  <2>2. Rest' = Rest
    BY <2>1, Still
  <2>3. TypeOK' /\ PcInv' /\ CancelInv'
    BY <2>1, <2>2 DEF Inv, TypeOK, PcInv, CancelInv
  <2> QED  BY <2>1, <2>3, StillInv
<1>2. CASE ServerStep
  BY <1>2, HandleInv, HandleModInv, RemoveInactiveInv, DrainSaveInv,
     DrainAnswerInv, WaitInv, QuietInv, CollectSavedInv, CollectCqInv
     DEF ServerStep
<1>3. CASE \E f \in Fds : Add(f) \/ RemoveInactive(f) \/ RemoveActive(f)
  BY <1>3, AddInv, RemoveInactiveInv, RemoveActiveInv
<1>4. CASE Stop \/ \E f \in Fds, what \in {"in", "out"} : BecomeReady(f, what)
  BY <1>4, QuietInv
<1>5. CASE AnswerRemoval \/ \E p \in polls : Complete(p)
  BY <1>5, AnswerRemovalInv, CompleteInv
<1> QED  BY <1>1, <1>2, <1>3, <1>4, <1>5 DEF Next

(* The inductive invariant holds throughout. *)
THEOREM InvCorrect ==
    ASSUME NoWrap
    PROVE  Spec => []Inv
<1>1. Init => Inv
  BY UringAssumption, InitInv
<1>2. Inv /\ [Next]_vars => Inv'
  BY UringAssumption, StepInv
<1> QED  BY <1>1, <1>2, PTL DEF Spec

(* Every variable of the back end keeps its type: in particular a batch    *)
(* never outgrows the caller's array (out_count), and a poll is only ever  *)
(* armed for a registered descriptor.                                      *)
THEOREM TypeCorrect ==
    ASSUME NoWrap
    PROVE  Spec => []TypeOK
<1>1. Inv => TypeOK
  BY DEF Inv
<1> QED  BY <1>1, InvCorrect, PTL

-----------------------------------------------------------------------------
(* One outstanding poll for each active descriptor.                        *)

LEMMA CardOne ==
    ASSUME NEW S, \A x, y \in S : x = y
    PROVE  Cardinality(S) = IF S = {} THEN 0 ELSE 1
<1>1. CASE S = {}
  BY <1>1, FS_EmptySet
<1>2. CASE S # {}
  <2>1. PICK x \in S : TRUE
    BY <1>2
  <2>2. S = {x}
    BY <2>1
  <2> QED  BY <1>2, <2>2, FS_Singleton
<1> QED  BY <1>1, <1>2

LEMMA TrackInv ==
    ASSUME Inv
    PROVE  PollTracked
<1>1. TypeOK /\ UniqueInv /\ ActiveInv /\ head <= Len(cq)
  BY DEF Inv, PcInv
<1> SUFFICES ASSUME NEW f \in Fds, fds[f].used
             PROVE  Outstanding(f) = IF fds[f].active THEN 1 ELSE 0
  BY DEF PollTracked
<1> DEFINE A == {p \in polls : Matches(p, f)}
           B == {i \in head + 1 .. Len(cq) : IsPollOf(cq[i], f)}
           C == {i \in DOMAIN saved : IsPollOf(saved[i], f)}
<1>2. \A x : Matches(x, f) <=> Key(x) = Current(f)
  BY DEF Matches, Key, Current
<1>3. /\ A # {} <=> Current(f) \in PollKeys
      /\ \A p, q \in A : p = q
  BY <1>1, <1>2 DEF UniqueInv, PollKeys
<1>4. /\ C # {} <=> Current(f) \in Keys(saved)
      /\ \A i, j \in C : i = j
  <2>1. \A i : i \in C <=> i \in PollAt(saved) /\ Key(saved[i]) = Current(f)
    BY <1>2 DEF PollAt, IsPollOf
  <2> HIDE DEF C
  <2> QED  BY <1>1, <2>1 DEF UniqueInv, Distinct, Keys
<1>5. /\ B # {} <=> Current(f) \in Keys(Rest)
      /\ \A i, j \in B : i = j
  <2>1. /\ Rest \in Seq(Cqe) /\ Len(cq) \in Nat /\ head \in Nat
        /\ DOMAIN Rest = 1 .. Len(cq) - head
        /\ \A i \in DOMAIN Rest : Rest[i] = cq[head + i]
    BY <1>1, RestProp DEF TypeOK
  <2>2. \A i \in B : /\ i \in Nat /\ i - head \in PollAt(Rest)
                     /\ Key(Rest[i - head]) = Current(f)
    <3> SUFFICES ASSUME NEW i \in B
                 PROVE  /\ i \in Nat /\ i - head \in PollAt(Rest)
                        /\ Key(Rest[i - head]) = Current(f)
      OBVIOUS
    <3>1. /\ i \in head + 1 .. Len(cq) /\ cq[i].kind = "poll"
          /\ Key(cq[i]) = Current(f)
      BY <1>2 DEF IsPollOf
    <3> HIDE DEF B
    <3>2. i - head \in DOMAIN Rest /\ head + (i - head) = i /\ i \in Nat
      BY <2>1, <3>1
    <3>3. Rest[i - head] = cq[i]
      BY <2>1, <3>2
    <3> QED  BY <3>1, <3>2, <3>3 DEF PollAt
  <2>3. \A i \in PollAt(Rest) : Key(Rest[i]) = Current(f) => head + i \in B
    <3> SUFFICES ASSUME NEW i \in PollAt(Rest), Key(Rest[i]) = Current(f)
                 PROVE  head + i \in B
      OBVIOUS
    <3>1. i \in DOMAIN Rest /\ Rest[i].kind = "poll"
      BY DEF PollAt
    <3>2. head + i \in head + 1 .. Len(cq) /\ cq[head + i] = Rest[i]
      BY <2>1, <3>1
    <3>3. IsPollOf(cq[head + i], f)
      BY <1>2, <3>1, <3>2 DEF IsPollOf
    <3> QED  BY <3>2, <3>3
  <2> HIDE DEF B
  <2>4. \A i, j \in B : i = j
    <3> SUFFICES ASSUME NEW i \in B, NEW j \in B PROVE i = j
      OBVIOUS
    <3>1. i - head = j - head
      BY <1>1, <2>2 DEF UniqueInv, Distinct
    <3> QED  BY <2>1, <2>2, <3>1
  <2>5. B # {} <=> Current(f) \in Keys(Rest)
    BY <2>2, <2>3 DEF Keys
  <2> QED  BY <2>4, <2>5
<1>6. Outstanding(f) = Cardinality(A) + Cardinality(B) + Cardinality(C)
  BY DEF Outstanding
<1> HIDE DEF A, B, C
<1>7. /\ Cardinality(A) = IF A = {} THEN 0 ELSE 1
      /\ Cardinality(B) = IF B = {} THEN 0 ELSE 1
      /\ Cardinality(C) = IF C = {} THEN 0 ELSE 1
  BY <1>3, <1>4, <1>5, CardOne
<1>8. fds[f].active <=> A # {} \/ B # {} \/ C # {}
  BY <1>1, <1>3, <1>4, <1>5 DEF ActiveInv, AllKeys
<1>9. ~(A # {} /\ B # {}) /\ ~(A # {} /\ C # {}) /\ ~(B # {} /\ C # {})
  BY <1>1, <1>3, <1>4, <1>5 DEF UniqueInv
<1> QED  BY <1>6, <1>7, <1>8, <1>9

(* A descriptor in use is active iff exactly one poll of its generation is *)
(* outstanding: h2_uring_submit_missing neither arms a second poll nor     *)
(* forgets a descriptor, whatever h2_io_remove puts aside and whenever the *)
(* kernel completes.                                                       *)
THEOREM TrackCorrect ==
    ASSUME NoWrap
    PROVE  Spec => []PollTracked
<1>1. Inv => PollTracked
  BY TrackInv
<1> QED  BY <1>1, InvCorrect, PTL

-----------------------------------------------------------------------------
(* The promise of io.h.                                                    *)

LEMMA UringIoStep ==
    ASSUME UringAssumption, Inv, [Next]_vars
    PROVE  [Io!IoNext]_(Io!ioVars)
<1> USE DEF Io!ioVars
<1> DEFINE shown == IF pc = "collect" THEN {} ELSE batch
<1>1. TypeOK /\ RegInv /\ PcInv
  BY DEF Inv
<1>2. ASSUME open' = open, batch' = batch, pc' = "collect" <=> pc = "collect"
      PROVE  UNCHANGED Io!ioVars
  BY <1>2
<1>3. ASSUME NEW f \in Fds, Forget(f), batch' = batch, pc # "collect"
      PROVE  [Io!IoNext]_(Io!ioVars)
  <2>1. /\ open' = [open EXCEPT ![f] = NotRegistered]
        /\ shown' = batch /\ shown = batch
    BY <1>3 DEF Forget
  <2>2. Io!Remove(f)
    BY <2>1 DEF Io!Remove, Io!NotRegistered, NotRegistered
  <2> QED  BY <2>2 DEF Io!IoNext
<1>4. ASSUME NEW f \in Fds, Add(f)
      PROVE  [Io!IoNext]_(Io!ioVars)
  <2>1. /\ open[f] = NotRegistered /\ regs + 1 \in Regs
        /\ open' = [open EXCEPT ![f] = regs + 1]
        /\ shown' = batch /\ shown = batch
    BY <1>1, <1>4 DEF Add, loopVars, Regs, TypeOK, UringAssumption
  <2>2. Io!Add(f, regs + 1)
    BY <2>1 DEF Io!Add, Io!NotRegistered, NotRegistered
  <2> QED  BY <2>1, <2>2 DEF Io!IoNext
<1>5. ASSUME NEW e \in batch, Handle(e)
      PROVE  [Io!IoNext]_(Io!ioVars)
  <2>1. /\ shown = batch /\ shown' = batch \ {e} /\ open' = open
        /\ open[e[1]] = e[2]
    BY <1>1, <1>5 DEF Handle, PcInv
  <2>2. Io!Handle(e)
    BY <2>1 DEF Io!Handle
  <2> QED  BY <2>1, <2>2 DEF Io!IoNext
<1>6. ASSUME CollectDone
      PROVE  [Io!IoNext]_(Io!ioVars)
  <2>1. shown = {} /\ shown' = batch /\ open' = open
    BY <1>6 DEF CollectDone, history
  <2>2. \A e \in batch : /\ e = <<e[1], e[2]>> /\ e[1] \in Fds /\ e[2] \in Regs
                         /\ open[e[1]] = e[2]
    BY <1>1 DEF TypeOK, PcInv
  <2> DEFINE B == {e[1] : e \in batch}
  <2>3. B \in SUBSET {f \in Fds : open[f] # NotRegistered}
    BY <2>2 DEF Regs, NotRegistered
  <2>4. batch = {<<f, open[f]>> : f \in B}
    BY <2>2
  <2> HIDE DEF B
  <2>5. Io!Wait
    BY <2>1, <2>3, <2>4 DEF Io!Wait, Io!NotRegistered, NotRegistered
  <2> QED  BY <2>5 DEF Io!IoNext
<1>7. ASSUME open' = open, pc = "collect" \/ batch = {}, pc' = "collect" \/ batch' = {}
      PROVE  UNCHANGED Io!ioVars
  BY <1>7
<1>8. CASE UNCHANGED vars
  BY <1>2, <1>8 DEF vars, loopVars, history
<1>9. CASE Wait \/ Enter \/ CollectSaved \/ CollectCq
  BY <1>1, <1>7, <1>9
     DEF Wait, Enter, CollectSaved, CollectCq, history, loopVars, PcInv
<1>10. CASE \/ \E events \in Interest : HandleMod(events)
            \/ DrainSave \/ Stop \/ AnswerRemoval
            \/ \E f \in Fds : RemoveActive(f)
            \/ \E f \in Fds, what \in {"in", "out"} : BecomeReady(f, what)
            \/ \E p \in polls : Complete(p)
  <2>1. open' = open /\ batch' = batch /\ (pc' = "collect" <=> pc = "collect")
    BY <1>10 DEF HandleMod, DrainSave, Stop, AnswerRemoval, RemoveActive,
       Removable, BecomeReady, Complete, history, loopVars
  <2> QED  BY <1>2, <2>1
<1>11. CASE \E f \in Fds : RemoveInactive(f)
  BY <1>3, <1>11 DEF RemoveInactive, Removable
<1>12. CASE DrainAnswer
  <2>1. fd \in Fds
    BY <1>1, <1>12 DEF DrainAnswer, PcInv
  <2> QED  BY <1>3, <1>12, <2>1 DEF DrainAnswer
<1>13. CASE ServerStep
  BY <1>5, <1>6, <1>9, <1>10, <1>11, <1>12, <1>13 DEF ServerStep
<1> QED  BY <1>4, <1>8, <1>10, <1>11, <1>13 DEF Next

(* The io_uring back end implements io.h for any number of descriptors,    *)
(* also when descriptors that the batch does not name are removed and      *)
(* their numbers registered again while old completions are on their way.  *)
THEOREM UringImplementsIo ==
    ASSUME NoWrap
    PROVE  Spec => ImplementsIo
<1>1. Init => Io!IoInit
  BY DEF Init, Io!IoInit, Io!NotRegistered, NotRegistered
<1>2. Inv /\ [Next]_vars => [Io!IoNext]_(Io!ioVars)
  BY UringAssumption, UringIoStep
<1> QED  BY <1>1, <1>2, InvCorrect, PTL DEF Spec, ImplementsIo, Io!IoSpec

-----------------------------------------------------------------------------
(* The sizes, as server.c uses the back end.                               *)

LEMMA ServerInit ==
    ASSUME UringAssumption, Init
    PROVE  ServerInv
<1>1. Inv
  BY InitInv
<1>2. polls = {} /\ saved = << >> /\ pc = "run" /\ cq = << >> /\ head = 0
  BY DEF Init
<1>3. Rest \in Seq(Cqe) /\ Len(Rest) = 0
  BY <1>1, <1>2, RestProp DEF Inv, TypeOK
<1>4. Rest = << >>
  BY <1>3
<1>5. AllKeys = {}
  BY <1>2, <1>4 DEF AllKeys, PollKeys, Keys, PollAt
<1> QED  BY <1>2, <1>5 DEF ServerInv

(* A step that takes no poll into the account, and removes none of a       *)
(* descriptor with an outstanding one.                                     *)
LEMMA ServerSame ==
    ASSUME Inv, ServerInv, AllKeys' \subseteq AllKeys,
           \A k \in AllKeys' : /\ fds'[k[1]].generation = fds[k[1]].generation
                               /\ ~closing => (fds[k[1]].used => fds'[k[1]].used),
           closing => closing',
           ~closing' => saved' = saved /\ pc' # "drain"
    PROVE  ServerInv'
BY DEF ServerInv

LEMMA ServerStepInv ==
    ASSUME UringAssumption, NoWrap, Inv, ServerInv, [Next]_vars
    PROVE  ServerInv'
<1> USE DEF loopVars, stateVars, kernelVars, history
<1> SUFFICES ASSUME ~CloseAny PROVE ServerInv'
  BY DEF ServerInv
<1>1. /\ TypeOK /\ RegInv /\ PcInv /\ CancelInv /\ UniqueInv /\ ActiveInv
  BY DEF Inv
<1>2. /\ \A k \in AllKeys : k[2] = fds[k[1]].generation
      /\ ~closing => /\ \A k \in AllKeys : fds[k[1]].used
                     /\ saved = << >> /\ pc # "drain"
  BY DEF ServerInv
<1>3. \A k \in AllKeys : k[1] \in Fds /\ k = <<k[1], k[2]>>
  BY KeysTimely
<1>4. ASSUME NEW f \in Fds, Add(f) PROVE ServerInv'
  <2>1. AllKeys' = AllKeys
    BY <1>4, Still DEF Add
  <2>2. ~fds[f].used /\ ~closing /\ UNCHANGED <<closing, saved, pc>>
    BY <1>1, <1>4 DEF Add, RegInv
  <2>3. {"in"} \in Interest
    BY DEF Interest
  <2>4. \A g \in Fds : g # f => fds'[g] = fds[g]
    BY <1>1, <1>4, <2>3, SetFdEffect DEF Add, TypeOK
  <2>5. \A k \in AllKeys : k[1] # f
    BY <1>2, <2>2
  <2> QED  BY <1>2, <1>3, <2>1, <2>2, <2>4, <2>5, ServerSame
<1>5. ASSUME NEW events \in Interest, HandleMod(events) PROVE ServerInv'
  <2>1. AllKeys' = AllKeys
    BY <1>5, Still DEF HandleMod
  <2>2. fd \in Fds /\ fds[fd].used /\ UNCHANGED <<closing, saved>> /\ pc' = "run"
    BY <1>1, <1>5 DEF HandleMod, PcInv
  <2>3. \A g \in Fds : /\ fds'[g].generation = fds[g].generation
                       /\ fds[g].used => fds'[g].used
    BY <1>1, <1>5, <2>2, SetFdEffect DEF HandleMod, TypeOK
  <2> QED  BY <1>3, <2>1, <2>2, <2>3, ServerSame
<1>6. ASSUME NEW f \in Fds, RemoveInactive(f) PROVE ServerInv'
  <2>1. AllKeys' = AllKeys
    BY <1>6, Still DEF RemoveInactive
  <2>2. Removable(f) /\ Forget(f) /\ ~fds[f].active /\ UNCHANGED <<closing, saved>>
    BY <1>6 DEF RemoveInactive
  <2>3. /\ fds'[f].generation = fds[f].generation /\ pc' = "run"
        /\ \A g \in Fds : g # f => fds'[g] = fds[g]
    BY <1>1, <2>2, ForgetEffect DEF TypeOK
  <2>4. fds[f].used
    BY <2>2, RemovableFacts
  <2>5. \A k \in AllKeys : k[1] # f
    <3>1. Current(f) \notin AllKeys
      BY <1>1, <2>2, <2>4 DEF ActiveInv
    <3> QED  BY <1>2, <1>3, <3>1 DEF Current
  <2> QED  BY <1>3, <2>1, <2>2, <2>3, <2>5, ServerSame
<1>7. ASSUME NEW f \in Fds, RemoveActive(f) PROVE ServerInv'
  <2>1. Removable(f) /\ fds[f].active /\ head' = 0
        /\ UNCHANGED <<closing, fds, saved, polls, cq>>
    BY <1>7 DEF RemoveActive
  <2>2. closing
    BY <1>1, <2>1 DEF Removable, PcInv
  <2>3. head' = head
    BY <2>1, RemovableFacts
  <2>4. AllKeys' = AllKeys
    BY <2>1, <2>3, Still
  <2> QED  BY <2>1, <2>2, <2>4, ServerSame
<1>8. ASSUME DrainSave PROVE ServerInv'
  <2>1. closing /\ UNCHANGED <<closing, fds>>
    BY <1>2, <1>8 DEF DrainSave
  <2>2. AllKeys' \subseteq AllKeys
    BY <1>8, DrainSaveInv
  <2> QED  BY <2>1, <2>2, ServerSame
<1>9. ASSUME DrainAnswer PROVE ServerInv'
  <2>1. closing /\ UNCHANGED closing /\ Forget(fd) /\ fd \in Fds
    BY <1>1, <1>2, <1>9 DEF DrainAnswer, PcInv
  <2>2. \A g \in Fds : fds'[g].generation = fds[g].generation
    BY <1>1, <2>1, ForgetEffect DEF TypeOK
  <2>3. AllKeys' \subseteq AllKeys
    BY <1>9, DrainAnswerInv
  <2> QED  BY <1>3, <2>1, <2>2, <2>3, ServerSame
<1>10. ASSUME Wait PROVE ServerInv'
  <2>1. /\ AllKeys' = AllKeys \cup {Current(f) : f \in Submitted}
        /\ \A g \in Fds : /\ fds'[g].generation = fds[g].generation
                          /\ fds'[g].used <=> fds[g].used
        /\ \A f \in Submitted : f \in Fds /\ fds[f].used
    BY <1>10, WaitInv
  <2>2. ~closing /\ UNCHANGED <<closing, saved>> /\ pc' # "drain"
    BY <1>10 DEF Wait
  <2>3. \A k \in AllKeys' : k[1] \in Fds /\ k[2] = fds[k[1]].generation
                            /\ fds[k[1]].used
    BY <1>2, <1>3, <2>1, <2>2 DEF Current
  <2> QED  BY <1>2, <2>1, <2>2, <2>3 DEF ServerInv
<1>11. ASSUME CollectSaved \/ CollectCq PROVE ServerInv'
  <2>1. /\ AllKeys' \subseteq AllKeys
        /\ \A g \in Fds : /\ fds'[g].generation = fds[g].generation
                          /\ fds[g].used => fds'[g].used
    BY <1>11, CollectSavedInv, CollectCqInv
  <2>2. pc' = "collect" /\ UNCHANGED closing /\ (~closing => saved' = saved)
    BY <1>2, <1>11 DEF CollectSaved, CollectCq
  <2> QED  BY <1>3, <2>1, <2>2, ServerSame
<1>12. ASSUME AnswerRemoval \/ \E p \in polls : Complete(p) PROVE ServerInv'
  <2>1. UNCHANGED <<pc, closing, saved, fds>>
    BY <1>12 DEF AnswerRemoval, Complete
  <2>2. AllKeys' = AllKeys
    BY <1>12, AnswerRemovalInv, CompleteInv
  <2> QED  BY <1>2, <2>1, <2>2, ServerSame
<1>13. ASSUME \/ UNCHANGED vars \/ Enter \/ CollectDone \/ Stop
              \/ \E e \in batch : Handle(e)
              \/ \E f \in Fds, what \in {"in", "out"} : BecomeReady(f, what)
       PROVE  ServerInv'
  <2>1. UNCHANGED <<fds, saved, polls, cq, head>>
    BY <1>13 DEF vars, Enter, CollectDone, Stop, Handle, BecomeReady
  <2>2. closing => closing'
    BY <1>13 DEF vars, Enter, CollectDone, Stop, Handle, BecomeReady
  <2>3. ~closing' => pc' # "drain"
    BY <1>2, <1>13 DEF vars, Enter, CollectDone, Stop, Handle, BecomeReady
  <2>4. AllKeys' = AllKeys
    BY <2>1, Still
  <2> QED  BY <2>1, <2>2, <2>3, <2>4, ServerSame
<1>14. CASE ServerStep
  BY <1>5, <1>6, <1>8, <1>9, <1>10, <1>11, <1>13, <1>14 DEF ServerStep
<1> QED  BY <1>4, <1>6, <1>7, <1>12, <1>13, <1>14 DEF Next

LEMMA InjectionCard ==
    ASSUME NEW S, NEW T, IsFiniteSet(T), NEW m \in [S -> T],
           \A x, y \in S : m[x] = m[y] => x = y
    PROVE  IsFiniteSet(S) /\ Cardinality(S) <= Cardinality(T)
           /\ Cardinality(S) \in Nat
<1>1. m \in Injection(S, T)
  BY DEF Injection, IsInjective
<1>2. IsFiniteSet(S) /\ Cardinality(S) <= Cardinality(T)
  BY <1>1, FS_Injection
<1> QED  BY <1>2, FS_CardinalityType

LEMMA DisjointCard ==
    ASSUME NEW A, NEW B, IsFiniteSet(A), IsFiniteSet(B), A \cap B = {}
    PROVE  /\ IsFiniteSet(A \cup B)
           /\ Cardinality(A \cup B) = Cardinality(A) + Cardinality(B)
           /\ Cardinality(A) \in Nat /\ Cardinality(B) \in Nat
<1>1. /\ IsFiniteSet(A \cup B)
      /\ Cardinality(A \cup B) =
            Cardinality(A) + Cardinality(B) - Cardinality(A \cap B)
  BY FS_Union
<1>2. Cardinality(A \cap B) = 0
  BY FS_EmptySet
<1>3. Cardinality(A) \in Nat /\ Cardinality(B) \in Nat
  BY FS_CardinalityType
<1> QED  BY <1>1, <1>2, <1>3

(* As many completions of polls in a sequence as keys. *)
LEMMA PollAtCard ==
    ASSUME NEW s \in Seq(Cqe), Distinct(s), IsFiniteSet(Keys(s))
    PROVE  /\ IsFiniteSet(PollAt(s))
           /\ Cardinality(PollAt(s)) <= Cardinality(Keys(s))
           /\ Cardinality(PollAt(s)) \in Nat
<1> DEFINE m == [i \in PollAt(s) |-> Key(s[i])]
<1>1. m \in [PollAt(s) -> Keys(s)]
  BY DEF Keys
<1>2. \A i, j \in PollAt(s) : m[i] = m[j] => i = j
  BY DEF Distinct
<1> HIDE DEF m
<1> QED  BY <1>1, <1>2, InjectionCard

(* No more polls are outstanding than there are descriptors. *)
LEMMA Population ==
    ASSUME UringAssumption, Inv, ServerInv, ~CloseAny
    PROVE  /\ Cardinality(polls) \in Nat
           /\ IsFiniteSet(PollAt(Rest)) /\ IsFiniteSet(PollAt(saved))
           /\ Cardinality(PollAt(Rest)) \in Nat
           /\ Cardinality(PollAt(saved)) \in Nat
           /\ Cardinality(polls) + Cardinality(PollAt(Rest))
              + Cardinality(PollAt(saved)) <= MaxFd
<1>1. TypeOK /\ UniqueInv /\ head <= Len(cq)
  BY DEF Inv, PcInv
<1>2. \A k \in AllKeys : /\ k[1] \in Fds /\ k = <<k[1], k[2]>>
                         /\ k[2] = fds[k[1]].generation
  BY KeysTimely DEF ServerInv
<1>3. IsFiniteSet(Fds) /\ Cardinality(Fds) = MaxFd /\ MaxFd \in Nat
  BY FS_Interval DEF UringAssumption, Fds
<1>4. IsFiniteSet(AllKeys) /\ Cardinality(AllKeys) <= MaxFd
  <2> DEFINE m == [k \in AllKeys |-> k[1]]
  <2>1. m \in [AllKeys -> Fds]
    BY <1>2
  <2>2. \A k, l \in AllKeys : m[k] = m[l] => k = l
    <3> SUFFICES ASSUME NEW k \in AllKeys, NEW l \in AllKeys, m[k] = m[l]
                 PROVE  k = l
      OBVIOUS
    <3>1. k[1] = l[1]
      OBVIOUS
    <3>2. k[2] = l[2]
      BY <1>2, <3>1
    <3> QED  BY <1>2, <3>1, <3>2
  <2> HIDE DEF m
  <2> QED  BY <1>3, <2>1, <2>2, InjectionCard
<1> DEFINE K1 == PollKeys
           K2 == Keys(Rest)
           K3 == Keys(saved)
<1>5. AllKeys = (K1 \cup K2) \cup K3 /\ K1 \cap K2 = {} /\ (K1 \cup K2) \cap K3 = {}
  BY <1>1 DEF AllKeys, UniqueInv
<1>6. IsFiniteSet(K1) /\ IsFiniteSet(K2) /\ IsFiniteSet(K3)
  <2>1. K1 \in SUBSET AllKeys /\ K2 \in SUBSET AllKeys /\ K3 \in SUBSET AllKeys
    BY <1>5
  <2> QED  BY <1>4, <2>1, FS_Subset
<1>7. /\ IsFiniteSet(PollAt(Rest)) /\ Cardinality(PollAt(Rest)) <= Cardinality(K2)
      /\ IsFiniteSet(PollAt(saved)) /\ Cardinality(PollAt(saved)) <= Cardinality(K3)
      /\ Cardinality(PollAt(Rest)) \in Nat /\ Cardinality(PollAt(saved)) \in Nat
  <2>1. Rest \in Seq(Cqe) /\ saved \in Seq(Cqe) /\ Distinct(Rest) /\ Distinct(saved)
    BY <1>1, RestProp DEF TypeOK, UniqueInv
  <2> QED  BY <1>6, <2>1, PollAtCard
<1>8. Cardinality(polls) <= Cardinality(K1) /\ Cardinality(polls) \in Nat
  <2> DEFINE m == [p \in polls |-> Key(p)]
  <2>1. m \in [polls -> K1]
    BY DEF PollKeys
  <2>2. \A p, q \in polls : m[p] = m[q] => p = q
    BY <1>1 DEF UniqueInv
  <2> HIDE DEF m, K1
  <2> QED  BY <1>6, <2>1, <2>2, InjectionCard
<1> HIDE DEF K1, K2, K3
<1>9. /\ IsFiniteSet(K1 \cup K2)
      /\ Cardinality(K1 \cup K2) = Cardinality(K1) + Cardinality(K2)
      /\ Cardinality(K1) \in Nat /\ Cardinality(K2) \in Nat
  BY <1>5, <1>6, DisjointCard
<1>10. /\ Cardinality(AllKeys) = Cardinality(K1 \cup K2) + Cardinality(K3)
       /\ Cardinality(K3) \in Nat
  BY <1>5, <1>6, <1>9, DisjointCard
<1> QED  BY <1>3, <1>4, <1>7, <1>8, <1>9, <1>10

(* What was put aside, and the rest of the queue, in numbers. *)
LEMMA Lengths ==
    ASSUME Inv, IsFiniteSet(PollAt(Rest)), IsFiniteSet(PollAt(saved))
    PROVE  /\ Len(saved) = Cardinality(PollAt(saved))
           /\ Len(Rest) <= Cardinality(PollAt(Rest)) + 1
           /\ Len(cq) = head + Len(Rest) /\ head <= Len(saved)
           /\ Len(cq) \in Nat /\ Len(Rest) \in Nat /\ head \in Nat
<1>1. TypeOK /\ CancelInv /\ head <= Len(cq) /\ head <= Len(saved)
  BY DEF Inv, PcInv
<1>2. /\ Rest \in Seq(Cqe) /\ Len(Rest) = Len(cq) - head /\ Len(cq) \in Nat
      /\ saved \in Seq(Cqe) /\ head \in Nat
  BY <1>1, RestProp DEF TypeOK
<1>3. ASSUME NEW s \in Seq(Cqe)
      PROVE  /\ Len(s) \in Nat /\ DOMAIN s = 1 .. Len(s)
             /\ Cardinality(DOMAIN s) = Len(s)
  <2>1. Len(s) \in Nat /\ DOMAIN s = 1 .. Len(s)
    OBVIOUS
  <2>2. Cardinality(1 .. Len(s)) = IF 1 > Len(s) THEN 0 ELSE Len(s) - 1 + 1
    BY <2>1, FS_Interval
  <2> QED  BY <2>1, <2>2
<1>4. Len(saved) = Cardinality(PollAt(saved))
  <2>1. PollAt(saved) = DOMAIN saved
    BY <1>1 DEF CancelInv, PollAt
  <2> QED  BY <1>2, <1>3, <2>1
<1>5. Len(Rest) <= Cardinality(PollAt(Rest)) + 1
  <2> DEFINE C == {i \in DOMAIN Rest : Rest[i].kind = "cancel"}
             P == PollAt(Rest)
  <2>1. \A i \in DOMAIN Rest : Rest[i] \in Cqe
    BY <1>2
  <2>2. DOMAIN Rest = P \cup C /\ P \cap C = {}
    BY <2>1 DEF PollAt, Cqe
  <2>3. \A i, j \in C : i = j
    BY <1>1 DEF CancelInv
  <2>4. IsFiniteSet(C)
    <3>1. CASE C = {}
      BY <3>1, FS_EmptySet
    <3>2. CASE C # {}
      <4>1. PICK i \in C : C = {i}
        BY <2>3, <3>2
      <4> HIDE DEF C
      <4> QED  BY <4>1, FS_Singleton
    <3> QED  BY <3>1, <3>2
  <2> HIDE DEF C, P
  <2>5. Cardinality(C) <= 1 /\ Cardinality(C) \in Nat
    BY <2>3, CardOne
  <2>6. /\ Cardinality(DOMAIN Rest) = Cardinality(P) + Cardinality(C)
        /\ Cardinality(P) \in Nat
    <3>1. IsFiniteSet(P)
      BY DEF P
    <3> QED  BY <2>2, <2>4, <3>1, DisjointCard
  <2>7. Cardinality(DOMAIN Rest) = Len(Rest)
    BY <1>2, <1>3
  <2> QED  BY <2>5, <2>6, <2>7 DEF P
<1> QED  BY <1>1, <1>2, <1>3, <1>4, <1>5

(* What server.c guarantees: it removes a descriptor while it handles its  *)
(* event or when it stops, and it registers no more than the buffers hold  *)
(* (at most H2_SERVER_MAX_CLIENTS and the listener, 129, against 256 and   *)
(* 512).                                                                   *)
ServerUse == ~CloseAny /\ MaxFd <= SavedCap /\ MaxFd < CqEntries

(* Driven by server.c, the back end has no poll of an older generation     *)
(* outstanding, and it cancels polls and puts completions aside only while *)
(* h2_server_run removes its clients at the end.                           *)
THEOREM ServerCorrect ==
    ASSUME NoWrap
    PROVE  Spec => []ServerInv
<1>1. Init => ServerInv
  BY UringAssumption, ServerInit
<1>2. Inv /\ ServerInv /\ [Next]_vars => ServerInv'
  BY UringAssumption, ServerStepInv
<1> QED  BY <1>1, <1>2, InvCorrect, PTL DEF Spec

(* h2_uring_save_cqe never finds pending_cqes full: the entry that it is   *)
(* about to put aside is one more outstanding poll than those it has put   *)
(* aside, and there is at most one for each descriptor.                    *)
THEOREM SavedCorrect ==
    ASSUME NoWrap, ServerUse
    PROVE  Spec => []SavedFits
<1>1. ASSUME Inv, ServerInv, pc = "drain", head < Len(cq),
             ~IsAnswer(cq[head + 1])
      PROVE  Len(saved) < SavedCap
  <2>1. /\ IsFiniteSet(PollAt(Rest)) /\ IsFiniteSet(PollAt(saved))
        /\ Cardinality(polls) \in Nat
        /\ Cardinality(PollAt(Rest)) \in Nat
        /\ Cardinality(PollAt(saved)) \in Nat
        /\ Cardinality(polls) + Cardinality(PollAt(Rest))
           + Cardinality(PollAt(saved)) <= MaxFd
    BY <1>1, UringAssumption, Population DEF ServerUse
  <2>2. Len(saved) = Cardinality(PollAt(saved))
    BY <1>1, <2>1, Lengths
  <2>3. 1 \in PollAt(Rest)
    <3>1. cq \in Seq(Cqe) /\ head \in Nat /\ CancelInv /\ head <= Len(cq)
      BY <1>1 DEF Inv, TypeOK, PcInv
    <3>2. Rest \in Seq(Cqe) /\ 1 \in DOMAIN Rest /\ Rest[1] = cq[head + 1]
      BY <1>1, <3>1, RestProp
    <3>3. Rest[1].kind # "cancel"
      BY <1>1, <3>1, <3>2 DEF CancelInv, IsAnswer
    <3>4. Rest[1] \in Cqe
      BY <3>2
    <3> QED  BY <3>2, <3>3, <3>4 DEF PollAt, Cqe
  <2>4. Cardinality(PollAt(Rest)) # 0
    BY <2>1, <2>3, FS_EmptySet
  <2> QED  BY <2>1, <2>2, <2>4, UringAssumption DEF ServerUse, UringAssumption
<1>2. Inv /\ ServerInv => SavedFits
  BY <1>1 DEF SavedFits
<1> QED  BY <1>2, InvCorrect, ServerCorrect, PTL

(* The completion queue never fills: what h2_uring_drain_until_cancel has  *)
(* put aside but not yet given back, the other completions, the answer of  *)
(* one POLL_REMOVE and the polls that can still complete have room in it.  *)
THEOREM RoomCorrect ==
    ASSUME NoWrap, ServerUse
    PROVE  Spec => []CqRoom
<1>1. ASSUME Inv, ServerInv
      PROVE  Len(cq) + Cardinality(polls) <= CqEntries
  <2>1. /\ IsFiniteSet(PollAt(Rest)) /\ IsFiniteSet(PollAt(saved))
        /\ Cardinality(polls) \in Nat
        /\ Cardinality(PollAt(Rest)) \in Nat
        /\ Cardinality(PollAt(saved)) \in Nat
        /\ Cardinality(polls) + Cardinality(PollAt(Rest))
           + Cardinality(PollAt(saved)) <= MaxFd
    BY <1>1, UringAssumption, Population DEF ServerUse
  <2>2. /\ Len(saved) = Cardinality(PollAt(saved))
        /\ Len(Rest) <= Cardinality(PollAt(Rest)) + 1
        /\ Len(cq) = head + Len(Rest) /\ head <= Len(saved)
        /\ Len(cq) \in Nat /\ Len(Rest) \in Nat /\ head \in Nat
    BY <1>1, <2>1, Lengths
  <2> QED  BY <2>1, <2>2, UringAssumption DEF ServerUse, UringAssumption
<1>2. Inv /\ ServerInv => CqRoom
  BY <1>1 DEF CqRoom
<1> QED  BY <1>2, InvCorrect, ServerCorrect, PTL
=============================================================================
