------------------------ MODULE TenantAccountProofs ------------------------
(***************************************************************************)
(* The account of a tenant user for any number of concurrent requests,     *)
(* tokens and passwords.  TypeInv says what a request of each stage holds; *)
(* the theorems about attempts, sessions and passwords each add one        *)
(* inductive invariant to it.                                              *)
(***************************************************************************)
EXTENDS TenantAccount, FiniteSetTheorems, SequenceTheorems, TLAPS

LoginStages == {"validate", "lock", "miss", "clear"}

\* What the record of a request holds at its stage.
Shape(o) ==
    /\ o.stage \in LoginStages => o.password \in Passwords
    /\ o.stage \in {"retire", "block"} => o.token \in Tokens
    /\ o.stage = "retire" => o.root \in Tokens
    /\ o.stage \notin {"retire", "issue"} => o.root = Null
    /\ o.stage = "write" => o.password \in Passwords /\ o.old \in Passwords

\* The tokens that a request names exist.
Holds(r) ==
    /\ op[r].root # Null => \E u \in Tokens : op[r].root = u /\ Issued(u)
    /\ op[r].stage \in {"retire", "block"} => \E u \in Tokens : op[r].token = u /\ Issued(u)

\* Only the requests of Serial refresh and write passwords.
Serialised(r) == op[r].root # Null \/ op[r].stage = "write" => r \in Serial

TypeInv ==
    /\ RowsOK
    /\ \A r \in Requests : Shape(op[r]) /\ Serialised(r)
    /\ \A t \in Tokens : Issued(t) => \E u \in Tokens : token[t].root = u /\ Issued(u)
    /\ \A r \in Requests : Holds(r)

-----------------------------------------------------------------------------
(* Sequences.                                                               *)

LEMMA LastOfType ==
    ASSUME NEW S, NEW s \in Seq(S), NEW n \in Nat
    PROVE  /\ LastOf(s, n) \in Seq(S)
           /\ Len(LastOf(s, n)) = IF Len(s) > n THEN n ELSE Len(s)
           /\ \A i \in 1 .. Len(LastOf(s, n)) :
                 LastOf(s, n)[i] = s[i + (IF Len(s) > n THEN Len(s) - n ELSE 0)]
<1>1. Len(s) \in Nat
  BY LenProperties
<1>2. CASE Len(s) > n
  <2>1. Len(s) - n + 1 \in 1 .. Len(s) + 1 /\ Len(s) \in Len(s) - n + 1 - 1 .. Len(s)
    BY <1>1, <1>2
  <2>2. /\ SubSeq(s, Len(s) - n + 1, Len(s)) \in Seq(S)
        /\ Len(SubSeq(s, Len(s) - n + 1, Len(s))) =
             IF Len(s) - n + 1 <= Len(s) THEN Len(s) - (Len(s) - n + 1) + 1 ELSE 0
        /\ \A i \in 1 .. Len(s) - (Len(s) - n + 1) + 1 :
             SubSeq(s, Len(s) - n + 1, Len(s))[i] = s[Len(s) - n + 1 + i - 1]
    BY <2>1, SubSeqProperties
  <2>3. LastOf(s, n) = SubSeq(s, Len(s) - n + 1, Len(s))
    BY <1>2 DEF LastOf
  <2>4. Len(LastOf(s, n)) = n
    BY <1>1, <1>2, <2>2, <2>3
  <2>5. ASSUME NEW i \in 1 .. n PROVE LastOf(s, n)[i] = s[i + (Len(s) - n)]
    <3>1. i \in 1 .. Len(s) - (Len(s) - n + 1) + 1 /\ Len(s) - n + 1 + i - 1 = i + (Len(s) - n)
      BY <1>1
    <3> QED BY <2>2, <2>3, <3>1
  <2> QED BY <1>2, <2>2, <2>3, <2>4, <2>5
<1>3. CASE ~(Len(s) > n)
  <2>1. LastOf(s, n) = s
    BY <1>3 DEF LastOf
  <2>2. \A i \in 1 .. Len(s) : i + 0 = i
    BY <1>1
  <2> QED BY <1>3, <2>1, <2>2
<1> QED BY <1>2, <1>3

\* The window moves on: dropping from the whole is dropping from the front.
LEMMA LastOfAppend ==
    ASSUME NEW S, NEW s \in Seq(S), NEW e \in S, NEW n \in Nat
    PROVE  LastOf(Append(s, e), n + 1) = Append(LastOf(s, n), e)
<1> DEFINE a == LastOf(Append(s, e), n + 1)
           b == Append(LastOf(s, n), e)
           k == IF Len(s) > n THEN Len(s) - n ELSE 0
<1>1. Len(s) \in Nat /\ k \in Nat
  BY LenProperties
<1>2. Append(s, e) \in Seq(S) /\ Len(Append(s, e)) = Len(s) + 1
  BY AppendProperties
<1>3. /\ a \in Seq(S)
      /\ Len(a) = IF Len(s) + 1 > n + 1 THEN n + 1 ELSE Len(s) + 1
      /\ \A i \in 1 .. Len(a) : a[i] = Append(s, e)[i + (IF Len(s) + 1 > n + 1 THEN Len(s) + 1 - (n + 1) ELSE 0)]
  <2> DEFINE w == Append(s, e)
             m == n + 1
  <2> HIDE DEF w, m
  <2>1. w \in Seq(S) /\ m \in Nat
    BY <1>2 DEF w, m
  <2>2. /\ LastOf(w, m) \in Seq(S)
        /\ Len(LastOf(w, m)) = IF Len(w) > m THEN m ELSE Len(w)
        /\ \A i \in 1 .. Len(LastOf(w, m)) :
              LastOf(w, m)[i] = w[i + (IF Len(w) > m THEN Len(w) - m ELSE 0)]
    BY <2>1, LastOfType
  <2>3. Len(w) = Len(s) + 1
    BY <1>2 DEF w
  <2> QED BY <2>2, <2>3 DEF w, m
<1>4. /\ LastOf(s, n) \in Seq(S)
      /\ Len(LastOf(s, n)) = IF Len(s) > n THEN n ELSE Len(s)
      /\ \A i \in 1 .. Len(LastOf(s, n)) : LastOf(s, n)[i] = s[i + k]
  BY LastOfType
<1>5. /\ b \in Seq(S) /\ Len(b) = Len(LastOf(s, n)) + 1
      /\ \A i \in 1 .. Len(LastOf(s, n)) : b[i] = LastOf(s, n)[i]
      /\ b[Len(LastOf(s, n)) + 1] = e
  BY <1>4, AppendProperties
<1>6. Len(a) = Len(b) /\ Len(LastOf(s, n)) + k = Len(s) /\ Len(LastOf(s, n)) \in Nat
  BY <1>1, <1>3, <1>4, <1>5
<1>7. (IF Len(s) + 1 > n + 1 THEN Len(s) + 1 - (n + 1) ELSE 0) = k
  BY <1>1
<1> HIDE DEF k
<1>8. ASSUME NEW i \in 1 .. Len(a) PROVE a[i] = b[i]
  <2>1. a[i] = Append(s, e)[i + k]
    BY <1>3, <1>7
  <2>2. CASE i \in 1 .. Len(LastOf(s, n))
    <3>1. i + k \in 1 .. Len(s)
      BY <1>1, <1>6, <2>2
    <3>2. Append(s, e)[i + k] = s[i + k]
      BY <3>1, AppendProperties
    <3> QED BY <1>4, <1>5, <2>1, <2>2, <3>2
  <2>3. CASE i = Len(LastOf(s, n)) + 1
    <3>1. i + k = Len(s) + 1
      BY <1>1, <1>6, <2>3
    <3> QED BY <1>5, <2>1, <2>3, <3>1, AppendProperties
  <2> HIDE DEF a, b
  <2> QED BY <1>1, <1>5, <1>6, <2>2, <2>3
<1> HIDE DEF a, b
<1>9. a = b
  BY <1>3, <1>5, <1>6, <1>8, SeqEqual
<1> QED BY <1>9 DEF a, b
-----------------------------------------------------------------------------
(* Types.                                                                   *)

LEMMA IdleType == Idle \in Op /\ Shape(Idle) /\ Idle.root = Null /\ Idle.stage = "idle"
BY EmptySeq DEF Idle, Op, OrNull, Stages, Shape, LoginStages

LEMMA TypeInit == Init => TypeInv
<1> SUFFICES ASSUME Init PROVE TypeInv
  OBVIOUS
<1>1. user \in User /\ Len(user.history) <= historyLimit
  BY AccountAssumption, EmptySeq DEF Init, User
<1>2. recent \in Seq(Passwords)
  BY AccountAssumption DEF Init
<1>3. token \in [Tokens -> Token] /\ \A t \in Tokens : ~Issued(t)
  BY DEF Init, Token, NoToken, OrNull, Issued
<1>4. op \in [Requests -> Op] /\ \A r \in Requests : op[r] = Idle
  BY IdleType DEF Init
<1> QED BY <1>1, <1>2, <1>3, <1>4, IdleType DEF Init, TypeInv, RowsOK, Serialised, Holds

\* A request that changes its own record properly keeps the types.
LEMMA OpStep ==
    ASSUME TypeInv, NEW r \in Requests, NEW next \in Op, Shape(next), op' = [op EXCEPT ![r] = next],
           next.root # Null => next.root = op[r].root \/ (r \in Serial /\ \E u \in Tokens : next.root = u /\ Issued(u)),
           next.stage \in {"retire", "block"} => \E u \in Tokens : next.token = u /\ Issued(u),
           next.stage = "write" => r \in Serial,
           \A t \in Tokens : Issued(t) => Issued(t)'
    PROVE  /\ op' \in [Requests -> Op]
           /\ op'[r] = next /\ \A q \in Requests \ {r} : op'[q] = op[q]
           /\ \A q \in Requests : Shape(op'[q]) /\ Serialised(q)'
           /\ \A q \in Requests : Holds(q)'
<1>1. /\ op \in [Requests -> Op]
      /\ \A q \in Requests : Shape(op[q]) /\ Serialised(q) /\ Holds(q)
  BY DEF TypeInv, RowsOK
<1>2. /\ op' \in [Requests -> Op]
      /\ op'[r] = next /\ \A q \in Requests \ {r} : op'[q] = op[q]
  BY <1>1
<1>3. \A q \in Requests : Shape(op'[q])
  BY <1>1, <1>2
<1>4. ASSUME NEW q \in Requests PROVE Serialised(q)'
  BY <1>1, <1>2 DEF Serialised
<1>5. ASSUME NEW q \in Requests PROVE Holds(q)'
  <2>1. CASE q = r
    <3>1. ASSUME op'[r].root # Null PROVE \E u \in Tokens : op'[r].root = u /\ Issued(u)'
      <4>1. PICK u \in Tokens : next.root = u /\ Issued(u)
        BY <1>1, <1>2, <3>1 DEF Holds
      <4> QED BY <1>2, <4>1
    <3>2. ASSUME op'[r].stage \in {"retire", "block"}
          PROVE  \E u \in Tokens : op'[r].token = u /\ Issued(u)'
      BY <1>2, <3>2
    <3> QED BY <2>1, <3>1, <3>2 DEF Holds
  <2>2. CASE q # r
    BY <1>1, <1>2, <2>2 DEF Holds
  <2> QED BY <2>1, <2>2
<1> QED BY <1>2, <1>3, <1>4, <1>5

\* Most steps leave the tokens and the window alone.
LEMMA OpOnly ==
    ASSUME TypeInv, NEW r \in Requests, NEW next \in Op, Shape(next), op' = [op EXCEPT ![r] = next],
           next.root # Null => next.root = op[r].root \/ (r \in Serial /\ \E u \in Tokens : next.root = u /\ Issued(u)),
           next.stage \in {"retire", "block"} => \E u \in Tokens : next.token = u /\ Issued(u),
           next.stage = "write" => r \in Serial,
           user' \in User, Len(user'.history) <= historyLimit, recent' \in Seq(Passwords), token' = token,
           tries' \in Nat, ended' \subseteq Tokens, faults' \in Nat
    PROVE  TypeInv'
<1>1. \A t \in Tokens : Issued(t) <=> Issued(t)'
  BY DEF Issued
<1>2. /\ op' \in [Requests -> Op]
      /\ \A q \in Requests : Shape(op'[q]) /\ Serialised(q)'
      /\ \A q \in Requests : Holds(q)'
  BY <1>1, OpStep
<1>3. \A t \in Tokens : Issued(t)' => \E u \in Tokens : token'[t].root = u /\ Issued(u)'
  BY <1>1 DEF TypeInv
<1>4. token' \in [Tokens -> Token]
  BY DEF TypeInv, RowsOK
<1> QED BY <1>2, <1>3, <1>4 DEF TypeInv, RowsOK, Shape

LEMMA LoginType ==
    ASSUME TypeInv, NEW r \in Requests, LoginStep(r)
    PROVE  TypeInv'
<1> USE AccountAssumption DEF OrNull, Stages, LoginStages
<1>1. /\ op[r] \in Op /\ Shape(op[r])
      /\ user \in User /\ Len(user.history) <= historyLimit /\ recent \in Seq(Passwords)
      /\ tries \in Nat /\ ended \subseteq Tokens /\ faults \in Nat
  BY DEF TypeInv, RowsOK
<1>2. ASSUME NEW next \in Op, NEW p \in Passwords, Shape([next EXCEPT !.stage = "miss"]),
             next.root = Null, next.password \in Passwords, Validate(r, next, p)
      PROVE  TypeInv'
  <2>1. PICK o \in {Idle} \cup {[next EXCEPT !.stage = s] : s \in {"lock", "clear", "miss"}} :
          op' = [op EXCEPT ![r] = o] /\ tries' \in {tries, tries + 1}
    BY <1>2 DEF Validate, Refuse, BeginLock, Compare, Goes, Ends
  <2>2. o \in Op /\ Shape(o) /\ o.root = Null /\ o.stage \notin {"write", "retire", "block"}
    <3>1. CASE o = Idle
      BY <3>1, IdleType
    <3>2. ASSUME NEW s \in {"lock", "clear", "miss"}, o = [next EXCEPT !.stage = s]
          PROVE  o \in Op /\ Shape(o) /\ o.root = Null /\ o.stage \notin {"write", "retire", "block"}
      BY <1>2, <3>2 DEF Op, Shape
    <3> QED BY <2>1, <3>1, <3>2
  <2>3. tries' \in Nat
    BY <1>1, <2>1
  <2>4. UNCHANGED <<user, token, recent, ended, faults>>
    BY <1>2 DEF Validate
  <2> QED BY <1>1, <2>1, <2>2, <2>3, <2>4, OpOnly
<1>3. ASSUME NEW p \in Passwords, Login(r, p) PROVE TypeInv'
  <2> DEFINE next == [Idle EXCEPT !.password = p]
  <2>1. next \in Op /\ Shape([next EXCEPT !.stage = "miss"]) /\ next.root = Null /\ next.password \in Passwords
    BY IdleType DEF Idle, Op, Shape
  <2>2. Validate(r, next, p)
    BY <1>3 DEF Login
  <2> HIDE DEF next
  <2> QED BY <1>2, <2>1, <2>2
<1>4. CASE LoginAgain(r)
  <2>1. /\ Shape([op[r] EXCEPT !.stage = "miss"])
        /\ op[r].root = Null /\ op[r].password \in Passwords
    BY <1>1, <1>4 DEF LoginAgain, Op, Shape
  <2>2. Validate(r, op[r], op[r].password)
    BY <1>4 DEF LoginAgain
  <2> QED BY <1>1, <1>2, <2>1, <2>2
<1>5. CASE Lock(r)
  <2>1. user' \in User /\ user'.history = user.history
    <3>1. user.attempts + 1 \in Nat
      BY <1>1 DEF User
    <3> QED BY <1>1, <1>5, <3>1 DEF Lock, User
  <2> QED BY <1>1, <1>5, <2>1, IdleType, OpOnly DEF Lock, Goes, Ends
<1>6. CASE Miss(r)
  <2>1. user' \in User /\ user'.history = user.history
    <3>1. user.attempts + 1 \in Nat /\ user' = [user EXCEPT !.attempts = user.attempts + 1]
      BY <1>1, <1>6 DEF Miss, User
    <3> QED BY <1>1, <3>1 DEF User
  <2> QED BY <1>1, <1>6, <2>1, IdleType, OpOnly DEF Miss, Goes, Ends
<1>7. CASE Clear(r)
  <2> DEFINE next == [op[r] EXCEPT !.stage = IF op[r].guarded THEN "issue" ELSE "validate", !.guarded = TRUE]
  <2>1. user' \in User /\ user'.history = user.history
    BY <1>1, <1>7 DEF Clear, User
  <2>2. next \in Op /\ Shape(next) /\ next.root = Null /\ next.stage \notin {"write", "retire", "block"}
    BY <1>1, <1>7 DEF Clear, Op, Shape
  <2>3. op' = [op EXCEPT ![r] = next]
    BY <1>7 DEF Clear, Goes
  <2> HIDE DEF next
  <2> QED BY <1>1, <1>7, <2>1, <2>2, <2>3, OpOnly DEF Clear
<1> QED BY <1>3, <1>4, <1>5, <1>6, <1>7 DEF LoginStep

LEMMA TokenType ==
    ASSUME TypeInv, NEW r \in Requests, TokenStep(r)
    PROVE  TypeInv'
<1> USE AccountAssumption DEF OrNull, Stages, LoginStages
<1>1. /\ op[r] \in Op /\ Shape(op[r]) /\ Serialised(r) /\ Holds(r)
      /\ user \in User /\ Len(user.history) <= historyLimit /\ recent \in Seq(Passwords)
      /\ tries \in Nat /\ ended \subseteq Tokens /\ faults \in Nat
      /\ token \in [Tokens -> Token]
      /\ \A t \in Tokens : Issued(t) => \E u \in Tokens : token[t].root = u /\ Issued(u)
  BY DEF TypeInv, RowsOK
<1>2. ASSUME NEW t \in Tokens, Issue(r, t) PROVE TypeInv'
  <2> DEFINE root == IF op[r].root = Null THEN t ELSE op[r].root
  <2>1. root \in Tokens /\ (root = t \/ Issued(root))
    BY <1>1 DEF Op, Holds
  <2> HIDE DEF root
  <2>2. /\ token' \in [Tokens -> Token]
        /\ token'[t].state = "valid" /\ token'[t].root = root
        /\ \A u \in Tokens \ {t} : token'[u] = token[u]
    BY <1>1, <1>2, <2>1 DEF Issue, Token, root
  <2>3. \A u \in Tokens : Issued(u)' <=> Issued(u) \/ u = t
    BY <2>2 DEF Issued
  <2>4. \A u \in Tokens : Issued(u)' => \E v \in Tokens : token'[u].root = v /\ Issued(v)'
    BY <1>1, <2>1, <2>2, <2>3
  <2>5. /\ op' \in [Requests -> Op]
        /\ \A q \in Requests : Shape(op'[q]) /\ Serialised(q)'
        /\ \A q \in Requests : Holds(q)'
    BY <1>2, <2>3, IdleType, OpStep DEF Issue, Goes, Ends
  <2> QED BY <1>1, <1>2, <2>2, <2>4, <2>5 DEF Issue, TypeInv, RowsOK, Shape
<1>3. ASSUME NEW t \in Tokens, Logout(r, t) PROVE TypeInv'
  <2> DEFINE next == [Idle EXCEPT !.stage = "block", !.token = t]
  <2>1. next \in Op /\ Shape(next) /\ next.root = Null /\ next.stage = "block" /\ next.token = t
    BY IdleType DEF Idle, Op, Shape
  <2>2. op' = [op EXCEPT ![r] = next]
    BY <1>3 DEF Logout, Goes
  <2>3. Issued(t)
    BY <1>3 DEF Logout, Authorised
  <2> HIDE DEF next
  <2> QED BY <1>1, <1>3, <2>1, <2>2, <2>3, OpOnly DEF Logout
<1>4. ASSUME /\ token' \in [Tokens -> Token]
             /\ \A t \in Tokens : (Issued(t) <=> Issued(t)') /\ token'[t].root = token[t].root,
             NEW next \in Op, Shape(next), next.root # Null => next.root = op[r].root,
             next.stage \notin {"write", "retire", "block"}, op' = [op EXCEPT ![r] = next],
             ended' \subseteq Tokens, UNCHANGED <<user, recent, tries, faults>>
      PROVE  TypeInv'
  <2>1. /\ op' \in [Requests -> Op]
        /\ \A q \in Requests : Shape(op'[q]) /\ Serialised(q)'
        /\ \A q \in Requests : Holds(q)'
    BY <1>4, OpStep
  <2>2. \A t \in Tokens : Issued(t)' => \E u \in Tokens : token'[t].root = u /\ Issued(u)'
    BY <1>1, <1>4
  <2> QED BY <1>1, <1>4, <2>1, <2>2 DEF TypeInv, RowsOK, Shape
<1>5. CASE Retire(r)
  <2> DEFINE next == [op[r] EXCEPT !.stage = "issue"]
  <2>1. next \in Op /\ Shape(next) /\ next.root = op[r].root /\ next.stage \notin {"write", "retire", "block"}
    BY <1>1, <1>5 DEF Retire, Op, Shape
  <2>2. op' = [op EXCEPT ![r] = next]
    BY <1>5 DEF Retire, Goes
  <2>3. PICK t \in Tokens : t = op[r].token /\ Issued(t)
    BY <1>1, <1>5 DEF Retire, Holds
  <2>4. /\ token' \in [Tokens -> Token]
        /\ \A u \in Tokens : (Issued(u) <=> Issued(u)') /\ token'[u].root = token[u].root
    <3> DEFINE new == [token[t] EXCEPT !.state = "revoked"]
    <3>1. token' = [token EXCEPT ![t] = new]
      BY <1>5, <2>3 DEF Retire, new
    <3>2. token[t] \in Token
      BY <1>1
    <3>3. new \in Token /\ new.root = token[t].root /\ (new.state = "none" <=> token[t].state = "none")
      BY <1>1, <2>3, <3>2 DEF Token, new, Issued
    <3> HIDE DEF new
    <3> QED BY <1>1, <3>1, <3>3 DEF Issued
  <2> HIDE DEF next
  <2> QED BY <1>1, <1>4, <1>5, <2>1, <2>2, <2>4 DEF Retire
<1>6. CASE Block(r)
  <2> DEFINE next == [op[r] EXCEPT !.stage = "revokeAll"]
  <2>1. next \in Op /\ Shape(next) /\ next.root = op[r].root /\ next.stage \notin {"write", "retire", "block"}
    BY <1>1, <1>6 DEF Block, Op, Shape
  <2>2. op' = [op EXCEPT ![r] = next]
    BY <1>6 DEF Block, Goes
  <2>3. PICK t \in Tokens : t = op[r].token
    BY <1>1, <1>6 DEF Block, Shape
  <2>4. /\ token' \in [Tokens -> Token]
        /\ \A u \in Tokens : (Issued(u) <=> Issued(u)') /\ token'[u].root = token[u].root
    <3> DEFINE new == [token[t] EXCEPT !.blocked = TRUE]
    <3>1. token' = [token EXCEPT ![t] = new]
      BY <1>6, <2>3 DEF Block, new
    <3>2. token[t] \in Token
      BY <1>1
    <3>3. new \in Token /\ new.root = token[t].root /\ (new.state = "none" <=> token[t].state = "none")
      BY <1>1, <2>3, <3>2 DEF Token, new, Issued
    <3> HIDE DEF new
    <3> QED BY <1>1, <3>1, <3>3 DEF Issued
  <2> HIDE DEF next
  <2> QED BY <1>1, <1>4, <1>6, <2>1, <2>2, <2>4 DEF Block
<1>7. CASE RevokeAll(r)
  <2>1. /\ token' \in [Tokens -> Token]
        /\ \A u \in Tokens : (Issued(u) <=> Issued(u)') /\ token'[u].root = token[u].root
    BY <1>1, <1>7 DEF RevokeAll, Token, Issued, Valid
  <2>2. ended' \subseteq Tokens
    BY <1>1, <1>7 DEF RevokeAll
  <2> QED BY <1>1, <1>4, <1>7, <2>1, <2>2, IdleType DEF RevokeAll, Goes, Ends
<1> QED BY <1>2, <1>3, <1>5, <1>6, <1>7 DEF TokenStep

LEMMA SerialType ==
    ASSUME TypeInv, NEW r \in Serial, SerialStep(r)
    PROVE  TypeInv'
<1> USE AccountAssumption DEF OrNull, Stages, LoginStages
<1>1. /\ r \in Requests
      /\ user \in User /\ Len(user.history) <= historyLimit /\ recent \in Seq(Passwords)
      /\ tries \in Nat /\ ended \subseteq Tokens /\ faults \in Nat
      /\ \A t \in Tokens : Issued(t) => \E u \in Tokens : token[t].root = u /\ Issued(u)
  BY DEF TypeInv, RowsOK
<1>2. ASSUME NEW t \in Tokens, Refresh(r, t) PROVE TypeInv'
  <2>1. PICK u \in Tokens : token[t].root = u /\ Issued(u) /\ Issued(t)
    BY <1>1, <1>2 DEF Refresh, Valid, Issued
  <2> DEFINE next == [Idle EXCEPT !.stage = "retire", !.token = t, !.root = u]
  <2>2. /\ next \in Op /\ Shape(next)
        /\ next.stage = "retire" /\ next.token = t /\ next.root = u
    BY IdleType DEF Idle, Op, Shape
  <2>3. op' = [op EXCEPT ![r] = next]
    BY <1>2, <2>1 DEF Refresh, Goes
  <2> HIDE DEF next
  <2> QED BY <1>1, <1>2, <2>1, <2>2, <2>3, OpOnly DEF Refresh
<1>3. ASSUME NEW p \in Passwords, NEW b \in BOOLEAN, BeginWrite(r, p, b) PROVE TypeInv'
  <2> DEFINE next == [Idle EXCEPT !.stage = "write", !.password = p, !.old = user.password,
                                  !.history = user.history, !.resets = b]
  <2>1. user.password \in Passwords /\ user.history \in Seq(Passwords)
    BY <1>1 DEF User
  <2>2. next \in Op /\ Shape(next) /\ next.root = Null /\ next.stage = "write"
    BY <2>1, IdleType DEF Idle, Op, Shape
  <2>3. op' = [op EXCEPT ![r] = next]
    BY <1>3 DEF BeginWrite, Goes
  <2> HIDE DEF next
  <2> QED BY <1>1, <1>3, <2>2, <2>3, OpOnly DEF BeginWrite
<1> QED BY <1>2, <1>3 DEF SerialStep, ResetPassword, ChangePassword

LEMMA OtherType ==
    ASSUME TypeInv,
           \/ \E r \in Requests : Write(r) \/ Fails(r)
           \/ LockLapses \/ ForgotPassword \/ OfferLapses
           \/ UNCHANGED account
    PROVE  TypeInv'
<1> USE AccountAssumption DEF OrNull, Stages, LoginStages
<1>1. /\ user \in User /\ Len(user.history) <= historyLimit /\ recent \in Seq(Passwords)
      /\ tries \in Nat /\ ended \subseteq Tokens /\ faults \in Nat
  BY DEF TypeInv, RowsOK
<1>2. ASSUME NEW r \in Requests, Write(r) PROVE TypeInv'
  <2> DEFINE next == IF op[r].resets THEN [Idle EXCEPT !.stage = "revokeAll"] ELSE Idle
             longer == Append(op[r].history, op[r].old)
             newer == Append(recent, op[r].password)
  <2>1. op[r] \in Op /\ op[r].password \in Passwords /\ op[r].old \in Passwords
    BY <1>2 DEF TypeInv, RowsOK, Shape, Write
  <2>2. longer \in Seq(Passwords) /\ newer \in Seq(Passwords)
    BY <1>1, <2>1 DEF Op
  <2> HIDE DEF longer, newer
  <2>3. /\ LastOf(longer, historyLimit) \in Seq(Passwords)
        /\ Len(LastOf(longer, historyLimit)) <= historyLimit
    BY <2>2, LastOfType, LenProperties
  <2>4. recent' \in Seq(Passwords)
    <3>1. recent' = LastOf(newer, historyLimit + 1)
      BY <1>2 DEF Write, newer
    <3> QED BY <2>2, <3>1, LastOfType
  <2>5. user' \in User /\ user'.history = LastOf(longer, historyLimit)
    <3>1. user' = [user EXCEPT !.password = op[r].password, !.offered = @ /\ ~op[r].resets,
                               !.history = LastOf(longer, historyLimit)]
      BY <1>2 DEF Write, longer
    <3> QED BY <1>1, <2>1, <2>3, <3>1 DEF User
  <2>6. next \in Op /\ Shape(next) /\ next.root = Null /\ next.stage \in {"idle", "revokeAll"}
    BY IdleType DEF Idle, Op, Shape
  <2>7. op' = [op EXCEPT ![r] = next]
    BY <1>2 DEF Write, Goes
  <2> HIDE DEF next
  <2>8. token' = token /\ tries' = tries /\ ended' = ended /\ faults' = faults
    BY <1>2 DEF Write
  <2> QED BY <1>1, <2>3, <2>4, <2>5, <2>6, <2>7, <2>8, OpOnly
<1>3. ASSUME NEW r \in Requests, Fails(r) PROVE TypeInv'
  <2>1. op' = [op EXCEPT ![r] = Idle] /\ UNCHANGED <<user, token, recent, tries, ended>>
    BY <1>3 DEF Fails, Goes, Ends
  <2>2. faults' \in Nat
    BY <1>1, <1>3 DEF Fails
  <2>3. Idle.stage \notin {"write", "retire", "block"}
    BY IdleType
  <2> QED BY <1>1, <2>1, <2>2, <2>3, IdleType, OpOnly
<1>4. ASSUME user' \in User, user'.history = user.history, UNCHANGED <<token, op, recent, tries, ended, faults>>
      PROVE  TypeInv'
  BY <1>1, <1>4 DEF TypeInv, RowsOK, Holds, Serialised, Issued, Shape
<1>5. CASE LockLapses \/ ForgotPassword \/ OfferLapses
  <2>1. user' \in User /\ user'.history = user.history
    BY <1>1, <1>5 DEF LockLapses, ForgotPassword, OfferLapses, User
  <2> QED BY <1>4, <1>5, <2>1 DEF LockLapses, ForgotPassword, OfferLapses
<1>6. CASE UNCHANGED account
  BY <1>1, <1>4, <1>6 DEF account
<1> QED BY <1>2, <1>3, <1>5, <1>6

LEMMA TypeStep == TypeInv /\ [Next]_vars => TypeInv'
BY LoginType, TokenType, SerialType, OtherType DEF Next, ChangeRefused, vars

LEMMA TypeAlways == Spec => []TypeInv
<1>1. Init => TypeInv
  BY TypeInit
<1>2. TypeInv /\ [Next]_vars => TypeInv'
  BY TypeStep
<1> QED BY <1>1, <1>2, PTL DEF Spec

(* Probes.  Only changePassword compares passwords elsewhere, with an       *)
(* access token.                                                            *)

ProbeInv ==
    /\ probes \in Nat
    /\ probes > 0 => \E t \in Tokens : Issued(t)

\* A token that was issued stays issued.
LEMMA IssuedStays ==
    ASSUME TypeInv, [Next]_vars, NEW t \in Tokens, Issued(t)
    PROVE  Issued(t)'
<1>1. token \in [Tokens -> Token]
  BY DEF TypeInv, RowsOK
<1>2. ASSUME NEW r \in Requests, LoginStep(r) \/ Write(r) \/ Fails(r) PROVE token' = token
  BY <1>2 DEF LoginStep, Login, LoginAgain, Validate, Lock, Miss, Clear, Write, Fails
<1>3. ASSUME NEW r \in Requests, TokenStep(r) PROVE Issued(t)'
  <2>1. ASSUME NEW u \in Tokens, Issue(r, u) PROVE Issued(t)'
    BY <1>1, <2>1 DEF Issue, Issued, Token
  <2>2. ASSUME NEW u \in Tokens, Logout(r, u) PROVE Issued(t)'
    BY <2>2 DEF Logout, Issued
  <2>3. CASE Retire(r)
    BY <1>1, <2>3 DEF Retire, Issued, Token
  <2>4. CASE Block(r)
    BY <1>1, <2>4 DEF Block, Issued, Token
  <2>5. CASE RevokeAll(r)
    BY <1>1, <2>5 DEF RevokeAll, Valid, Issued, Token
  <2> QED BY <1>3, <2>1, <2>2, <2>3, <2>4, <2>5 DEF TokenStep
<1>4. ASSUME NEW r \in Requests, SerialStep(r) PROVE token' = token
  BY <1>4 DEF SerialStep, Refresh, ResetPassword, ChangePassword, BeginWrite
<1>5. ASSUME LockLapses \/ ForgotPassword \/ OfferLapses \/ UNCHANGED account PROVE token' = token
  BY <1>5 DEF LockLapses, ForgotPassword, OfferLapses, account
<1>6. token' = token => Issued(t)'
  BY DEF Issued
<1>7. Serial \subseteq Requests
  BY AccountAssumption
<1> QED BY <1>2, <1>3, <1>4, <1>5, <1>6, <1>7 DEF Next, ChangeRefused, vars

LEMMA ProbeStep ==
    ASSUME TypeInv, ProbeInv, [Next]_vars
    PROVE  ProbeInv'
<1>1. CASE \E r \in Requests, t \in Tokens, p \in Passwords : ChangeRefused(r, t, p)
  <2>1. PICK r \in Requests, t \in Tokens, p \in Passwords : ChangeRefused(r, t, p)
    BY <1>1
  <2>2. Issued(t)' /\ probes' = probes + 1
    BY <2>1, IssuedStays DEF ChangeRefused, Authorised
  <2> QED BY <2>2 DEF ProbeInv
<1>2. CASE ~(\E r \in Requests, t \in Tokens, p \in Passwords : ChangeRefused(r, t, p))
  <2>1. ASSUME NEW r \in Requests, LoginStep(r) \/ TokenStep(r) \/ Write(r) \/ Fails(r)
        PROVE  probes' = probes
    BY <2>1 DEF LoginStep, Login, LoginAgain, Validate, Lock, Miss, Clear, TokenStep, Issue, Logout,
                Retire, Block, RevokeAll, Write, Fails
  <2>2. ASSUME NEW r \in Serial, SerialStep(r) PROVE probes' = probes
    BY <2>2 DEF SerialStep, Refresh, ResetPassword, ChangePassword, BeginWrite
  <2>3. probes' = probes
    BY <1>2, <2>1, <2>2 DEF Next, LockLapses, ForgotPassword, OfferLapses, vars
  <2> QED BY <2>3, IssuedStays DEF ProbeInv
<1> QED BY <1>1, <1>2

LEMMA ProbeAlways == Spec => []ProbeInv
<1>1. Init => ProbeInv
  BY DEF Init, ProbeInv
<1>2. TypeInv /\ ProbeInv /\ [Next]_vars => ProbeInv'
  BY ProbeStep
<1> QED BY <1>1, <1>2, TypeAlways, PTL DEF Spec

\* The row, the tokens and the requests keep their types, and the password
\* history never outgrows its limit.
THEOREM TypeCorrect == Spec => []TypeOK
<1>1. TypeInv /\ ProbeInv => TypeOK
  BY DEF TypeInv, ProbeInv, TypeOK
<1> QED BY <1>1, TypeAlways, ProbeAlways, PTL
-----------------------------------------------------------------------------
(* Attempts.  What was compared and not yet counted is in the hands of the  *)
(* requests about to count it.                                              *)

Missing == {r \in Requests : op[r].stage = "miss"}

\* The bound of TriesBounded on what logins compare.
LoginTries == tries + 1 <= maxAttempts + Cardinality(Requests) + faults

TriesInv ==
    /\ tries <= user.attempts + Cardinality(Missing) + faults
    /\ LoginTries

LEMMA MissingCount ==
    ASSUME TypeInv
    PROVE  IsFiniteSet(Missing) /\ Cardinality(Missing) \in Nat /\ Cardinality(Missing) <= Cardinality(Requests)
BY AccountAssumption, FS_Subset, FS_CardinalityType DEF Missing

\* One request changes its record.
LEMMA MissingStep ==
    ASSUME TypeInv, NEW r \in Requests, op' \in [Requests -> Op],
           \A q \in Requests \ {r} : op'[q] = op[q]
    PROVE  /\ (op[r].stage = "miss" <=> op'[r].stage = "miss") => Missing' = Missing
           /\ op[r].stage # "miss" /\ op'[r].stage = "miss" =>
                Cardinality(Missing') = Cardinality(Missing) + 1
           /\ op[r].stage = "miss" /\ op'[r].stage # "miss" =>
                Cardinality(Missing') = Cardinality(Missing) - 1
<1>1. (op[r].stage = "miss" <=> op'[r].stage = "miss") => Missing' = Missing
  BY DEF Missing
<1>2. ASSUME op[r].stage # "miss", op'[r].stage = "miss"
      PROVE  Cardinality(Missing') = Cardinality(Missing) + 1
  <2>1. Missing' = Missing \cup {r} /\ r \notin Missing
    BY <1>2 DEF Missing
  <2> QED BY <2>1, MissingCount, FS_AddElement
<1>3. ASSUME op[r].stage = "miss", op'[r].stage # "miss"
      PROVE  Cardinality(Missing') = Cardinality(Missing) - 1
  <2>1. Missing' = Missing \ {r} /\ r \in Missing
    BY <1>3 DEF Missing
  <2> QED BY <2>1, MissingCount, FS_RemoveElement
<1> QED BY <1>1, <1>2, <1>3

\* The steps that have nothing to do with a login.
LEMMA Elsewhere ==
    ASSUME TypeInv, NEW r \in Requests,
           \/ \E t \in Tokens : Issue(r, t) \/ Logout(r, t) \/ Refresh(r, t)
           \/ Retire(r) \/ Block(r) \/ RevokeAll(r) \/ Write(r)
           \/ \E p \in Passwords, b \in BOOLEAN : op[r] = Idle /\ BeginWrite(r, p, b)
    PROVE  /\ op[r].stage # "miss" /\ op'[r].stage # "miss"
           /\ \A q \in Requests \ {r} : op'[q] = op[q]
           /\ user'.attempts = user.attempts /\ tries' = tries /\ faults' = faults
<1>1. op \in [Requests -> Op] /\ user \in User
  BY DEF TypeInv, RowsOK
<1>2. op[r] \in Op
  BY <1>1
<1>3. ASSUME NEW t \in Tokens, Issue(r, t) \/ Logout(r, t) \/ Refresh(r, t)
      PROVE  /\ op[r].stage # "miss" /\ op'[r].stage # "miss"
             /\ \A q \in Requests \ {r} : op'[q] = op[q]
             /\ user'.attempts = user.attempts /\ tries' = tries /\ faults' = faults
  <2>1. CASE Issue(r, t)
    BY <1>1, <2>1 DEF Issue, Goes, Ends, Idle
  <2>2. CASE Logout(r, t)
    <3> DEFINE o == [Idle EXCEPT !.stage = "block", !.token = t]
    <3>1. o.stage # "miss"
      BY DEF Idle
    <3>2. op' = [op EXCEPT ![r] = o] /\ op[r].stage # "miss"
      BY <2>2, IdleType DEF Logout, Goes
    <3> HIDE DEF o
    <3> QED BY <1>1, <2>2, <3>1, <3>2 DEF Logout
  <2>3. CASE Refresh(r, t)
    <3> DEFINE o == [Idle EXCEPT !.stage = "retire", !.token = t, !.root = token[t].root]
    <3>1. o.stage # "miss"
      BY DEF Idle
    <3>2. op' = [op EXCEPT ![r] = o] /\ op[r].stage # "miss"
      BY <2>3, IdleType DEF Refresh, Goes
    <3> HIDE DEF o
    <3> QED BY <1>1, <2>3, <3>1, <3>2 DEF Refresh
  <2> QED BY <1>3, <2>1, <2>2, <2>3
<1>4. CASE Retire(r) \/ Block(r)
  <2>1. PICK s \in {"issue", "revokeAll"} : op' = [op EXCEPT ![r] = [op[r] EXCEPT !.stage = s]]
    BY <1>4 DEF Retire, Block, Goes
  <2>2. op'[r].stage = s /\ \A q \in Requests \ {r} : op'[q] = op[q]
    BY <1>1, <1>2, <2>1 DEF Op
  <2> QED BY <1>4, <2>2 DEF Retire, Block
<1>5. CASE RevokeAll(r)
  BY <1>1, <1>5 DEF RevokeAll, Goes, Ends, Idle
<1>6. CASE Write(r)
  <2>1. PICK o \in {Idle, [Idle EXCEPT !.stage = "revokeAll"]} : op' = [op EXCEPT ![r] = o]
    BY <1>6 DEF Write, Goes
  <2>2. o.stage # "miss"
    BY DEF Idle
  <2>3. user'.attempts = user.attempts
    BY <1>1, <1>6 DEF Write, User
  <2> QED BY <1>1, <1>6, <2>1, <2>2, <2>3 DEF Write
<1>7. ASSUME NEW p \in Passwords, NEW b \in BOOLEAN, op[r] = Idle, BeginWrite(r, p, b)
      PROVE  /\ op[r].stage # "miss" /\ op'[r].stage # "miss"
             /\ \A q \in Requests \ {r} : op'[q] = op[q]
             /\ user'.attempts = user.attempts /\ tries' = tries /\ faults' = faults
  <2> DEFINE o == [Idle EXCEPT !.stage = "write", !.password = p, !.old = user.password,
                               !.history = user.history, !.resets = b]
  <2>1. o.stage # "miss" /\ op[r].stage # "miss"
    BY <1>7 DEF Idle
  <2>2. op' = [op EXCEPT ![r] = o] /\ user' = user /\ tries' = tries /\ faults' = faults
    BY <1>7 DEF BeginWrite, Goes
  <2> HIDE DEF o
  <2> QED BY <1>1, <2>1, <2>2
<1> QED BY <1>3, <1>4, <1>5, <1>6, <1>7

LEMMA TriesStep ==
    ASSUME TypeInv, TriesInv, [Next]_vars
    PROVE  TriesInv'
<1> USE AccountAssumption
<1>0. TypeInv'
  BY TypeStep
<1>1. /\ op \in [Requests -> Op] /\ op' \in [Requests -> Op]
      /\ user \in User /\ user' \in User
      /\ user.attempts \in Nat /\ user'.attempts \in Nat
      /\ tries \in Nat /\ tries' \in Nat /\ faults \in Nat /\ faults' \in Nat
  BY <1>0 DEF TypeInv, RowsOK, User
<1>2. /\ Cardinality(Missing) \in Nat /\ Cardinality(Missing) <= Cardinality(Requests)
      /\ Cardinality(Missing') \in Nat /\ Cardinality(Missing') <= Cardinality(Requests)
      /\ Cardinality(Requests) \in Nat
  <2>1. Missing' = {r \in Requests : op'[r].stage = "miss"}
    BY DEF Missing
  <2>2. Cardinality(Missing') \in Nat /\ Cardinality(Missing') <= Cardinality(Requests)
    BY <2>1, FS_Subset, FS_CardinalityType
  <2> QED BY <2>2, MissingCount, FS_CardinalityType
<1>3. ASSUME Cardinality(Missing') = Cardinality(Missing), user'.attempts >= user.attempts,
             tries' = tries, faults' >= faults
      PROVE  TriesInv'
  BY <1>1, <1>2, <1>3 DEF TriesInv, LoginTries
<1>4. ASSUME NEW r \in Requests, NEW next \in Op, NEW p \in Passwords, Validate(r, next, p), op[r].stage # "miss"
      PROVE  TriesInv'
  <2>1. CASE Refuse(r)
    <3>1. op'[r].stage # "miss" /\ \A q \in Requests \ {r} : op'[q] = op[q]
      BY <1>1, <2>1 DEF Refuse, Goes, Ends, Idle
    <3> QED BY <1>1, <1>3, <1>4, <2>1, <3>1, MissingStep DEF Validate, Refuse
  <2>2. CASE BeginLock(r, next)
    <3> DEFINE o == [next EXCEPT !.stage = "lock"]
    <3>1. o.stage # "miss"
      BY DEF Op
    <3>2. op' = [op EXCEPT ![r] = o]
      BY <2>2 DEF BeginLock, Goes
    <3> HIDE DEF o
    <3>3. op'[r].stage # "miss" /\ \A q \in Requests \ {r} : op'[q] = op[q]
      BY <1>1, <3>1, <3>2
    <3> QED BY <1>1, <1>3, <1>4, <2>2, <3>3, MissingStep DEF Validate, BeginLock
  <2>3. CASE Compare(r, next, p) /\ p = user.password
    <3> DEFINE o == [next EXCEPT !.stage = "clear"]
    <3>1. o.stage # "miss"
      BY DEF Op
    <3>2. op' = [op EXCEPT ![r] = o] /\ tries' = tries
      BY <2>3 DEF Compare, Goes
    <3> HIDE DEF o
    <3>3. op'[r].stage # "miss" /\ \A q \in Requests \ {r} : op'[q] = op[q]
      BY <1>1, <3>1, <3>2
    <3> QED BY <1>1, <1>3, <1>4, <3>2, <3>3, MissingStep DEF Validate
  <2>4. CASE Compare(r, next, p) /\ p # user.password
    <3> DEFINE o == [next EXCEPT !.stage = "miss"]
    <3>1. o.stage = "miss"
      BY DEF Op
    <3>2. op' = [op EXCEPT ![r] = o] /\ tries' = tries + 1 /\ ~(user.attempts >= maxAttempts)
      BY <2>4 DEF Compare, Goes, TooMany
    <3> HIDE DEF o
    <3>3. op'[r].stage = "miss" /\ \A q \in Requests \ {r} : op'[q] = op[q]
      BY <1>1, <3>1, <3>2
    <3>4. Cardinality(Missing') = Cardinality(Missing) + 1
      BY <1>1, <1>4, <3>3, MissingStep
    <3>5. user' = user /\ faults' = faults
      BY <1>4 DEF Validate
    <3> QED BY <1>1, <1>2, <3>2, <3>4, <3>5 DEF TriesInv, LoginTries
  <2> QED BY <1>4, <2>1, <2>2, <2>3, <2>4 DEF Validate
<1>5. ASSUME NEW r \in Requests, LoginStep(r) PROVE TriesInv'
  <2>1. ASSUME NEW p \in Passwords, Login(r, p) PROVE TriesInv'
    <3> DEFINE next == [Idle EXCEPT !.password = p]
    <3>1. next \in Op
      BY IdleType DEF Idle, Op, OrNull
    <3>2. op[r].stage # "miss" /\ Validate(r, next, p)
      BY <2>1 DEF Login, Idle
    <3> HIDE DEF next
    <3> QED BY <1>4, <3>1, <3>2
  <2>2. CASE LoginAgain(r)
    <3>1. op[r] \in Op /\ op[r].password \in Passwords /\ op[r].stage # "miss"
      BY <1>1, <2>2 DEF LoginAgain, TypeInv, Shape, LoginStages
    <3> QED BY <1>4, <2>2, <3>1 DEF LoginAgain
  <2>3. CASE Lock(r)
    <3>1. user'.attempts = user.attempts + 1 /\ tries' = tries /\ faults' = faults
      BY <1>1, <2>3 DEF Lock, User
    <3>2. op[r].stage # "miss" /\ op'[r].stage # "miss" /\ \A q \in Requests \ {r} : op'[q] = op[q]
      BY <1>1, <2>3 DEF Lock, Goes, Ends, Idle
    <3> QED BY <1>1, <1>3, <3>1, <3>2, MissingStep
  <2>4. CASE Miss(r)
    <3>1. user'.attempts = user.attempts + 1 /\ tries' = tries /\ faults' = faults
      BY <1>1, <2>4 DEF Miss, User
    <3>2. op[r].stage = "miss" /\ op'[r].stage # "miss" /\ \A q \in Requests \ {r} : op'[q] = op[q]
      BY <1>1, <2>4 DEF Miss, Goes, Ends, Idle
    <3>3. Cardinality(Missing') = Cardinality(Missing) - 1
      BY <1>1, <3>2, MissingStep
    <3> QED BY <1>1, <1>2, <3>1, <3>3 DEF TriesInv, LoginTries
  <2>5. CASE Clear(r)
    <3>1. tries' = 0
      BY <2>5 DEF Clear
    <3> QED BY <1>1, <1>2, <3>1 DEF TriesInv, LoginTries
  <2> QED BY <1>5, <2>1, <2>2, <2>3, <2>4, <2>5 DEF LoginStep
<1>6. ASSUME NEW r \in Requests, TokenStep(r) \/ Write(r) \/ (r \in Serial /\ SerialStep(r)) PROVE TriesInv'
  <2>1. /\ op[r].stage # "miss" /\ op'[r].stage # "miss"
        /\ \A q \in Requests \ {r} : op'[q] = op[q]
        /\ user'.attempts = user.attempts /\ tries' = tries /\ faults' = faults
    BY <1>6, Elsewhere DEF TokenStep, SerialStep, ResetPassword, ChangePassword
  <2> QED BY <1>1, <1>3, <2>1, MissingStep
<1>7. ASSUME NEW r \in Requests, Fails(r) PROVE TriesInv'
  <2>1. user' = user /\ tries' = tries /\ faults' = faults + 1
    BY <1>7 DEF Fails
  <2>2. op'[r].stage # "miss" /\ \A q \in Requests \ {r} : op'[q] = op[q]
    BY <1>1, <1>7 DEF Fails, Goes, Ends, Idle
  <2>3. Cardinality(Missing') = Cardinality(Missing) \/ Cardinality(Missing') = Cardinality(Missing) - 1
    BY <1>1, <2>2, MissingStep
  <2> QED BY <1>1, <1>2, <2>1, <2>3 DEF TriesInv, LoginTries
<1>8. CASE LockLapses \/ ForgotPassword \/ OfferLapses \/ UNCHANGED account
  <2>1. user'.attempts = user.attempts /\ tries' = tries /\ faults' = faults /\ op' = op
    BY <1>1, <1>8 DEF LockLapses, ForgotPassword, OfferLapses, account, User
  <2>2. Missing' = Missing
    BY <2>1 DEF Missing
  <2> QED BY <1>1, <1>3, <2>1, <2>2
<1> QED BY <1>5, <1>6, <1>7, <1>8 DEF Next, ChangeRefused, vars, AccountAssumption

\* However many logins run at once, the wrong passwords that logins compared
\* since the last accepted one stay within the bound of LoginTries; the guesses
\* at changePassword, which nothing bounds, need a token that was issued.
THEOREM TriesCorrect == Spec => []TriesBounded
<1>1. Init => TriesInv
  <2>1. Init => Missing = {}
    BY DEF Init, Missing, Idle
  <2>2. Cardinality({}) = 0 /\ Cardinality(Requests) \in Nat
    BY AccountAssumption, FS_EmptySet, FS_CardinalityType
  <2>3. Init => user.attempts = 0 /\ tries = 0 /\ faults = 0
    BY DEF Init
  <2> QED BY <2>1, <2>2, <2>3, AccountAssumption DEF TriesInv, LoginTries
<1>2. TypeInv /\ TriesInv /\ [Next]_vars => TriesInv'
  BY TriesStep
<1>3. TriesInv /\ ProbeInv => TriesBounded
  BY DEF TriesInv, ProbeInv, LoginTries, TriesBounded
<1> QED BY <1>1, <1>2, <1>3, TypeAlways, ProbeAlways, PTL DEF Spec
-----------------------------------------------------------------------------
(* Tokens.                                                                  *)

SessionInv ==
    /\ SessionsEnd
    /\ \A r \in Requests : op[r].stage \in {"retire", "issue"} => op[r].root \notin ended
    /\ \A t \in ended : Issued(t)

\* What matters here of the steps that make, change or end no token.
LEMMA Harmless ==
    ASSUME TypeInv, NEW r \in Requests,
           LoginStep(r) \/ Write(r) \/ Fails(r) \/ Block(r) \/ Retire(r)
             \/ (\E t \in Tokens : Logout(r, t))
             \/ (\E p \in Passwords, b \in BOOLEAN : op[r] = Idle /\ BeginWrite(r, p, b))
    PROVE  /\ \A t \in Tokens : token'[t].root = token[t].root /\ (Valid(t)' => Valid(t))
                                 /\ (Issued(t) <=> Issued(t)')
           /\ ended' = ended
           /\ \A q \in Requests \ {r} : op'[q] = op[q]
           /\ op'[r].root = op[r].root \/ op'[r].root = Null
           /\ op'[r].stage = "retire" => op[r].stage = "retire" /\ op'[r].token = op[r].token
           /\ op'[r].stage \in {"retire", "issue"} =>
                op'[r].root = op[r].root /\ (op[r].root = Null \/ op[r].stage \in {"retire", "issue"})
<1> DEFINE Same == /\ token' = token
                   /\ ended' = ended
           Calm(o) == /\ o.root = op[r].root \/ o.root = Null
                      /\ o.stage \notin {"retire", "issue"} \/ (o.stage = "issue" /\ o.root = Null /\ op[r].root = Null)
<1>1. op \in [Requests -> Op] /\ op[r] \in Op /\ token \in [Tokens -> Token] /\ Shape(op[r])
  BY DEF TypeInv, RowsOK
<1>2. ASSUME NEW o, Calm(o), op' = [op EXCEPT ![r] = o], Same
      PROVE  /\ \A t \in Tokens : token'[t].root = token[t].root /\ (Valid(t)' => Valid(t))
                                   /\ (Issued(t) <=> Issued(t)')
             /\ ended' = ended
             /\ \A q \in Requests \ {r} : op'[q] = op[q]
             /\ op'[r].root = op[r].root \/ op'[r].root = Null
             /\ op'[r].stage = "retire" => op[r].stage = "retire" /\ op'[r].token = op[r].token
             /\ op'[r].stage \in {"retire", "issue"} =>
                  op'[r].root = op[r].root /\ (op[r].root = Null \/ op[r].stage \in {"retire", "issue"})
  BY <1>1, <1>2 DEF Valid, Issued
<1> DEFINE Goal == \E o : Calm(o) /\ op' = [op EXCEPT ![r] = o] /\ Same
<1>3. ASSUME NEW next, NEW p \in Passwords, Validate(r, next, p), next.root = Null, NEW x \in Op, next = x
      PROVE  Goal
  <2>1. Same
    BY <1>3 DEF Validate
  <2>2. CASE Refuse(r)
    <3>1. Calm(Idle)
      BY IdleType
    <3> QED BY <2>1, <2>2, <3>1 DEF Refuse, Goes, Ends
  <2>3. ASSUME NEW s \in {"lock", "clear", "miss"}, op' = [op EXCEPT ![r] = [next EXCEPT !.stage = s]]
        PROVE  Goal
    <3> DEFINE o == [next EXCEPT !.stage = s]
    <3>1. Calm(o)
      BY <1>3 DEF Op
    <3>2. op' = [op EXCEPT ![r] = o]
      BY <2>3
    <3> HIDE DEF o
    <3> QED BY <2>1, <3>1, <3>2
  <2>4. CASE BeginLock(r, next) \/ Compare(r, next, p)
    BY <2>3, <2>4 DEF BeginLock, Compare, Goes
  <2> QED BY <1>3, <2>2, <2>4 DEF Validate
<1>4. CASE LoginStep(r)
  <2>1. ASSUME NEW p \in Passwords, Login(r, p) PROVE Goal
    <3> DEFINE next == [Idle EXCEPT !.password = p]
    <3>1. next \in Op /\ next.root = Null
      BY IdleType DEF Idle, Op, OrNull
    <3>2. Validate(r, next, p)
      BY <2>1 DEF Login
    <3> HIDE DEF next, Goal
    <3> QED BY <1>3, <3>1, <3>2
  <2>2. ASSUME LoginAgain(r) PROVE Goal
    <3>1. op[r].password \in Passwords /\ op[r].root = Null /\ Validate(r, op[r], op[r].password)
      BY <1>1, <2>2 DEF LoginAgain, Shape, LoginStages
    <3> HIDE DEF Goal
    <3> QED BY <1>1, <1>3, <3>1
  <2>3. ASSUME Lock(r) \/ Miss(r) PROVE Goal
    <3>1. Calm(Idle)
      BY IdleType
    <3> QED BY <2>3, <3>1 DEF Lock, Miss, Goes, Ends
  <2>4. ASSUME Clear(r) PROVE Goal
    <3> DEFINE o == [op[r] EXCEPT !.stage = IF op[r].guarded THEN "issue" ELSE "validate", !.guarded = TRUE]
    <3>1. op[r].root = Null
      BY <1>1, <2>4 DEF Clear, Shape
    <3>2. Calm(o)
      BY <1>1, <3>1 DEF Op
    <3>3. op' = [op EXCEPT ![r] = o] /\ Same
      BY <2>4 DEF Clear, Goes
    <3> HIDE DEF o
    <3> QED BY <3>2, <3>3
  <2>5. Goal
    <3> HIDE DEF Goal
    <3> QED BY <1>4, <2>1, <2>2, <2>3, <2>4 DEF LoginStep
  <2> HIDE DEF Calm, Same
  <2> QED BY <1>2, <2>5
<1>5. CASE Write(r) \/ Fails(r)
  <2>1. PICK o \in {Idle, [Idle EXCEPT !.stage = "revokeAll"]} : op' = [op EXCEPT ![r] = o] /\ Same
    BY <1>5 DEF Write, Fails, Goes, Ends
  <2>2. Calm(o)
    BY DEF Idle
  <2> HIDE DEF Calm, Same
  <2> QED BY <1>2, <2>1, <2>2
<1>6. CASE Block(r)
  <2> DEFINE o == [op[r] EXCEPT !.stage = "revokeAll"]
  <2>1. o.root = op[r].root /\ o.stage = "revokeAll" /\ op' = [op EXCEPT ![r] = o]
    BY <1>1, <1>6 DEF Block, Op, Goes
  <2> HIDE DEF o
  <2>2. PICK t \in Tokens : t = op[r].token
    BY <1>1, <1>6 DEF Block, Shape
  <2>3. token' = [token EXCEPT ![t].blocked = TRUE] /\ ended' = ended
    BY <1>6, <2>2 DEF Block
  <2>4. \A u \in Tokens : token'[u].root = token[u].root /\ token'[u].state = token[u].state
    BY <1>1, <2>3 DEF Token
  <2> QED BY <1>1, <2>1, <2>3, <2>4 DEF Valid, Issued
<1>7. CASE Retire(r)
  <2> DEFINE o == [op[r] EXCEPT !.stage = "issue"]
  <2>1. o.root = op[r].root /\ o.stage = "issue" /\ op' = [op EXCEPT ![r] = o] /\ op[r].stage = "retire"
    BY <1>1, <1>7 DEF Retire, Op, Goes
  <2> HIDE DEF o
  <2>2. PICK t \in Tokens : t = op[r].token /\ Issued(t)
    BY <1>7 DEF Retire, TypeInv, Holds
  <2>3. token' = [token EXCEPT ![t].state = "revoked"] /\ ended' = ended
    BY <1>7, <2>2 DEF Retire
  <2>4. \A u \in Tokens : /\ token'[u].root = token[u].root
                          /\ token'[u].state = IF u = t THEN "revoked" ELSE token[u].state
    BY <1>1, <2>3 DEF Token
  <2> QED BY <1>1, <2>1, <2>2, <2>3, <2>4 DEF Valid, Issued
<1>8. ASSUME NEW t \in Tokens, Logout(r, t) PROVE Goal
  <2> DEFINE o == [Idle EXCEPT !.stage = "block", !.token = t]
  <2>1. Calm(o)
    BY DEF Idle
  <2>2. op' = [op EXCEPT ![r] = o] /\ Same
    BY <1>8 DEF Logout, Goes
  <2> HIDE DEF o
  <2> QED BY <2>1, <2>2
<1>9. ASSUME NEW p \in Passwords, NEW b \in BOOLEAN, op[r] = Idle, BeginWrite(r, p, b) PROVE Goal
  <2> DEFINE o == [Idle EXCEPT !.stage = "write", !.password = p, !.old = user.password,
                               !.history = user.history, !.resets = b]
  <2>1. Calm(o)
    BY DEF Idle
  <2>2. op' = [op EXCEPT ![r] = o] /\ Same
    BY <1>9 DEF BeginWrite, Goes
  <2> HIDE DEF o
  <2> QED BY <2>1, <2>2
<1>10. ASSUME Goal
       PROVE  /\ \A t \in Tokens : token'[t].root = token[t].root /\ (Valid(t)' => Valid(t))
                                    /\ (Issued(t) <=> Issued(t)')
              /\ ended' = ended
              /\ \A q \in Requests \ {r} : op'[q] = op[q]
              /\ op'[r].root = op[r].root \/ op'[r].root = Null
              /\ op'[r].stage = "retire" => op[r].stage = "retire" /\ op'[r].token = op[r].token
              /\ op'[r].stage \in {"retire", "issue"} =>
                   op'[r].root = op[r].root /\ (op[r].root = Null \/ op[r].stage \in {"retire", "issue"})
  <2> HIDE DEF Calm, Same
  <2> QED BY <1>2, <1>10
<1> HIDE DEF Goal
<1> QED BY <1>4, <1>5, <1>6, <1>7, <1>8, <1>9, <1>10

\* The steps that Harmless does not cover, as they touch tokens and requests.
LEMMA IssueFacts ==
    ASSUME TypeInv, NEW r \in Requests, NEW t \in Tokens, Issue(r, t)
    PROVE  /\ \A u \in Tokens \ {t} : token'[u] = token[u]
           /\ token'[t].state = "valid"
           /\ token'[t].root = IF op[r].root = Null THEN t ELSE op[r].root
           /\ op'[r] = Idle /\ \A q \in Requests \ {r} : op'[q] = op[q]
           /\ ended' = ended /\ ~Issued(t) /\ op[r].stage = "issue"
BY DEF Issue, Goes, Ends, TypeInv, RowsOK, Token

LEMMA RefreshFacts ==
    ASSUME TypeInv, NEW r \in Requests, NEW t \in Tokens, Refresh(r, t)
    PROVE  /\ token' = token /\ ended' = ended /\ Valid(t)
           /\ op'[r].stage = "retire" /\ op'[r].token = t /\ op'[r].root = token[t].root
           /\ \A q \in Requests \ {r} : op'[q] = op[q]
<1> DEFINE o == [Idle EXCEPT !.stage = "retire", !.token = t, !.root = token[t].root]
<1>1. o.stage = "retire" /\ o.token = t /\ o.root = token[t].root
  BY DEF Idle
<1>2. op' = [op EXCEPT ![r] = o] /\ op \in [Requests -> Op]
  BY DEF Refresh, Goes, TypeInv, RowsOK
<1> HIDE DEF o
<1> QED BY <1>1, <1>2 DEF Refresh

LEMMA RevokeAllFacts ==
    ASSUME TypeInv, NEW r \in Requests, RevokeAll(r)
    PROVE  /\ \A t \in Tokens : ~Valid(t)' /\ token'[t].root = token[t].root /\ (Issued(t) <=> Issued(t)')
           /\ op'[r] = Idle /\ \A q \in Requests \ {r} : op'[q] = op[q]
           /\ ended' = ended \cup ({token[t].root : t \in {u \in Tokens : Issued(u)}} \ InFlight)
<1>1. \A t \in Tokens : ~Valid(t)' /\ token'[t].root = token[t].root /\ (Issued(t) <=> Issued(t)')
  BY DEF RevokeAll, TypeInv, RowsOK, Token, Valid, Issued
<1> QED BY <1>1 DEF RevokeAll, Goes, Ends, TypeInv, RowsOK

LEMMA SessionStep ==
    ASSUME TypeInv, SessionInv, [Next]_vars
    PROVE  SessionInv'
<1>1. /\ \A r \in Requests : op[r] \in Op /\ Shape(op[r]) /\ Holds(r)
      /\ ended \subseteq Tokens /\ Null \notin ended
      /\ \A t \in Tokens : Issued(t) => \E u \in Tokens : token[t].root = u /\ Issued(u)
  BY AccountAssumption DEF TypeInv, RowsOK
<1>2. ASSUME NEW r \in Requests,
             \/ LoginStep(r) \/ Write(r) \/ Fails(r) \/ Block(r) \/ Retire(r)
             \/ \E t \in Tokens : Logout(r, t)
             \/ \E p \in Passwords, b \in BOOLEAN : op[r] = Idle /\ BeginWrite(r, p, b)
      PROVE  SessionInv'
  <2>1. /\ \A t \in Tokens : token'[t].root = token[t].root /\ (Valid(t)' => Valid(t)) /\ (Issued(t) <=> Issued(t)')
        /\ ended' = ended
        /\ \A q \in Requests \ {r} : op'[q] = op[q]
        /\ op'[r].stage \in {"retire", "issue"} =>
             op'[r].root = op[r].root /\ (op[r].root = Null \/ op[r].stage \in {"retire", "issue"})
    BY <1>2, Harmless
  <2>2. SessionsEnd'
    BY <2>1 DEF SessionInv, SessionsEnd
  <2>3. ASSUME NEW q \in Requests, op'[q].stage \in {"retire", "issue"} PROVE op'[q].root \notin ended'
    BY <1>1, <2>1, <2>3 DEF SessionInv
  <2>4. \A t \in ended' : Issued(t)'
    BY <1>1, <2>1 DEF SessionInv
  <2> QED BY <2>2, <2>3, <2>4 DEF SessionInv
<1>3. ASSUME NEW r \in Requests, NEW t \in Tokens, Issue(r, t) PROVE SessionInv'
  <2> DEFINE root == IF op[r].root = Null THEN t ELSE op[r].root
  <2>1. /\ \A u \in Tokens \ {t} : token'[u] = token[u]
        /\ token'[t].root = root /\ token'[t].state = "valid"
        /\ op'[r] = Idle /\ \A q \in Requests \ {r} : op'[q] = op[q]
        /\ ended' = ended /\ ~Issued(t) /\ op[r].stage = "issue"
    BY <1>3, IssueFacts
  <2>2. root \notin ended
    BY <1>1, <2>1 DEF SessionInv
  <2> HIDE DEF root
  <2>3. SessionsEnd'
    BY <2>1, <2>2 DEF SessionInv, SessionsEnd, Valid
  <2>4. \A q \in Requests : op'[q].stage \in {"retire", "issue"} => op'[q].root \notin ended'
    BY <2>1, IdleType DEF SessionInv
  <2>5. \A u \in ended' : Issued(u)'
    BY <1>1, <2>1 DEF SessionInv, Issued
  <2> QED BY <2>3, <2>4, <2>5 DEF SessionInv
<1>4. ASSUME NEW r \in Requests, NEW t \in Tokens, Refresh(r, t) PROVE SessionInv'
  <2>1. /\ token' = token /\ ended' = ended /\ Valid(t)
        /\ op'[r].stage = "retire" /\ op'[r].root = token[t].root
        /\ \A q \in Requests \ {r} : op'[q] = op[q]
    BY <1>4, RefreshFacts
  <2>2. SessionsEnd' /\ \A u \in ended' : Issued(u)'
    BY <2>1 DEF SessionInv, SessionsEnd, Valid, Issued
  <2>3. \A q \in Requests : op'[q].stage \in {"retire", "issue"} => op'[q].root \notin ended'
    BY <2>1 DEF SessionInv, SessionsEnd
  <2> QED BY <2>2, <2>3 DEF SessionInv
<1>5. ASSUME NEW r \in Requests, RevokeAll(r) PROVE SessionInv'
  <2>1. /\ \A t \in Tokens : ~Valid(t)' /\ (Issued(t) <=> Issued(t)')
        /\ op'[r] = Idle /\ \A q \in Requests \ {r} : op'[q] = op[q]
        /\ ended' = ended \cup ({token[t].root : t \in {u \in Tokens : Issued(u)}} \ InFlight)
    BY <1>5, RevokeAllFacts
  <2>2. SessionsEnd'
    BY <2>1 DEF SessionsEnd
  <2>3. ASSUME NEW q \in Requests, op'[q].stage \in {"retire", "issue"} PROVE op'[q].root \notin ended'
    <3>1. q # r /\ op'[q] = op[q]
      BY <2>1, <2>3, IdleType
    <3>2. op[q].root \in InFlight
      BY <2>3, <3>1 DEF InFlight
    <3> QED BY <2>1, <2>3, <3>1, <3>2 DEF SessionInv
  <2>4. ASSUME NEW x \in ended' PROVE Issued(x)'
    <3>1. CASE x \in ended
      BY <1>1, <2>1, <3>1 DEF SessionInv
    <3>2. CASE x \in {token[t].root : t \in {u \in Tokens : Issued(u)}}
      <4>1. PICK t \in Tokens : x = token[t].root /\ Issued(t)
        BY <3>2
      <4>2. x \in Tokens /\ Issued(x)
        BY <1>1, <4>1
      <4> QED BY <2>1, <4>2
    <3> QED BY <2>1, <2>4, <3>1, <3>2
  <2> QED BY <2>2, <2>3, <2>4 DEF SessionInv
<1>6. CASE LockLapses \/ ForgotPassword \/ OfferLapses \/ UNCHANGED account
  <2>1. token' = token /\ op' = op /\ ended' = ended
    BY <1>6 DEF LockLapses, ForgotPassword, OfferLapses, account
  <2> QED BY <2>1 DEF SessionInv, SessionsEnd, Valid, Issued
<1>7. Serial \subseteq Requests
  BY AccountAssumption
<1> QED BY <1>2, <1>3, <1>4, <1>5, <1>6, <1>7
        DEF Next, TokenStep, SerialStep, ResetPassword, ChangePassword, ChangeRefused, vars

\* After logout or resetPassword no token of an earlier login is valid, for
\* any number of requests and whatever fails, but for refreshes in flight.
THEOREM SessionsCorrect == Spec => []SessionsEnd
<1>1. Init => SessionInv
  BY IdleType DEF Init, SessionInv, SessionsEnd, NoToken, Valid, Idle
<1>2. TypeInv /\ SessionInv /\ [Next]_vars => SessionInv'
  BY SessionStep
<1>3. SessionInv => SessionsEnd
  BY DEF SessionInv
<1> QED BY <1>1, <1>2, <1>3, TypeAlways, PTL DEF Spec

\* The invariant behind OneTokenPerLogin: a refresh owns the only valid token
\* of its login until it has revoked it, and then there is none.
OneInv ==
    /\ \A t, u \in Tokens : Valid(t) /\ Valid(u) /\ token[t].root = token[u].root => t = u
    /\ \A r \in Requests : op[r].root # Null =>
          /\ op[r].stage \in {"retire", "issue"}
          /\ \A t \in Tokens : Valid(t) /\ token[t].root = op[r].root =>
                op[r].stage = "retire" /\ t = op[r].token

LEMMA SingleSerial ==
    ASSUME Cardinality(Serial) <= 1, NEW r \in Serial, NEW q \in Serial
    PROVE  r = q
<1>1. IsFiniteSet(Serial)
  BY AccountAssumption, FS_Subset
<1>2. CASE r # q
  <2>1. Cardinality({r, q}) = 2 /\ {r, q} \subseteq Serial
    <3>1. Cardinality({r}) = 1 /\ IsFiniteSet({r})
      BY FS_Singleton
    <3>2. Cardinality({r} \cup {q}) = Cardinality({r}) + 1
      BY <1>2, <3>1, FS_AddElement
    <3>3. {r} \cup {q} = {r, q}
      OBVIOUS
    <3> QED BY <3>1, <3>2, <3>3
  <2>2. Cardinality({r, q}) <= Cardinality(Serial) /\ Cardinality(Serial) \in Nat
    BY <1>1, <2>1, FS_Subset, FS_CardinalityType
  <2> QED BY <2>1, <2>2
<1> QED BY <1>2

LEMMA OneStep ==
    ASSUME TypeInv, OneInv, [Next]_vars, Cardinality(Serial) <= 1
    PROVE  OneInv'
<1>1. /\ \A r \in Requests : op[r] \in Op /\ Shape(op[r]) /\ Holds(r) /\ Serialised(r)
      /\ \A t \in Tokens : Issued(t) => \E u \in Tokens : token[t].root = u /\ Issued(u)
      /\ \A t \in Tokens : Valid(t) => Issued(t)
      /\ Null \notin Tokens
  BY AccountAssumption DEF TypeInv, RowsOK, Valid, Issued
<1>2. ASSUME NEW r \in Requests,
             \/ LoginStep(r) \/ Write(r) \/ Fails(r) \/ Block(r)
             \/ \E t \in Tokens : Logout(r, t)
             \/ \E p \in Passwords, b \in BOOLEAN : op[r] = Idle /\ BeginWrite(r, p, b)
      PROVE  OneInv'
  <2>1. /\ \A t \in Tokens : token'[t].root = token[t].root /\ (Valid(t)' => Valid(t))
        /\ \A q \in Requests \ {r} : op'[q] = op[q]
    BY <1>2, Harmless
  <2>2. op'[r].root = Null
    <3>1. op'[r].root = op[r].root \/ op'[r].root = Null
      BY <1>2, Harmless
    <3>2. CASE Fails(r)
      BY <3>2, IdleType DEF Fails, Goes, Ends, TypeInv, RowsOK
    <3>3. CASE ~Fails(r)
      <4>1. op[r].stage \notin {"retire", "issue"}
        BY <1>2, <3>3, IdleType DEF LoginStep, Login, LoginAgain, Lock, Miss, Clear, Write, Block, Logout
      <4> QED BY <1>1, <3>1, <4>1 DEF Shape
    <3> QED BY <3>2, <3>3
  <2> QED BY <2>1, <2>2 DEF OneInv
<1>3. ASSUME NEW r \in Requests, NEW t \in Tokens, Issue(r, t) PROVE OneInv'
  <2> DEFINE root == IF op[r].root = Null THEN t ELSE op[r].root
  <2>1. /\ \A u \in Tokens \ {t} : token'[u] = token[u]
        /\ token'[t].root = root /\ token'[t].state = "valid"
        /\ op'[r] = Idle /\ \A q \in Requests \ {r} : op'[q] = op[q]
        /\ ~Issued(t) /\ op[r].stage = "issue"
    BY <1>3, IssueFacts
  <2>2. ASSUME NEW u \in Tokens, Valid(u) PROVE token[u].root # root
    BY <1>1, <2>1, <2>2 DEF OneInv
  <2>3. ASSUME NEW q \in Requests \ {r} PROVE op[q].root = Null \/ op[q].root # root
    <3>1. CASE op[r].root = Null
      BY <1>1, <2>1, <3>1 DEF Holds
    <3>2. CASE op[r].root # Null
      BY <1>1, <3>2, SingleSerial DEF Serialised
    <3> QED BY <3>1, <3>2
  <2> HIDE DEF root
  <2>4. \A u, v \in Tokens : Valid(u)' /\ Valid(v)' /\ token'[u].root = token'[v].root => u = v
    BY <2>1, <2>2 DEF OneInv, Valid
  <2>5. ASSUME NEW q \in Requests, op'[q].root # Null
        PROVE  /\ op'[q].stage \in {"retire", "issue"}
               /\ \A u \in Tokens : Valid(u)' /\ token'[u].root = op'[q].root =>
                     op'[q].stage = "retire" /\ u = op'[q].token
    <3>1. q # r /\ op'[q] = op[q]
      BY <2>1, <2>5, IdleType
    <3> QED BY <2>1, <2>3, <2>5, <3>1 DEF OneInv, Valid
  <2> QED BY <2>4, <2>5 DEF OneInv
<1>4. ASSUME NEW r \in Serial, NEW t \in Tokens, Refresh(r, t) PROVE OneInv'
  <2>1. /\ token' = token /\ Valid(t)
        /\ op'[r].stage = "retire" /\ op'[r].token = t /\ op'[r].root = token[t].root
        /\ \A q \in Requests \ {r} : op'[q] = op[q]
    BY <1>4, RefreshFacts, AccountAssumption
  <2> QED BY <2>1 DEF OneInv, Valid
<1>5. ASSUME NEW r \in Requests, Retire(r) PROVE OneInv'
  <2> DEFINE o == [op[r] EXCEPT !.stage = "issue"]
  <2>1. /\ o.root = op[r].root /\ o.stage = "issue" /\ op[r].stage = "retire"
        /\ op' = [op EXCEPT ![r] = o]
    BY <1>1, <1>5 DEF Retire, Op, Goes
  <2> HIDE DEF o
  <2>2. op'[r] = o /\ \A q \in Requests \ {r} : op'[q] = op[q]
    BY <2>1 DEF TypeInv, RowsOK
  <2>3. PICK t \in Tokens : t = op[r].token
    BY <1>1, <2>1 DEF Shape
  <2>4. token' = [token EXCEPT ![t].state = "revoked"] /\ token \in [Tokens -> Token]
    BY <1>5, <2>3 DEF Retire, TypeInv, RowsOK
  <2>5. \A u \in Tokens : /\ token'[u].root = token[u].root
                          /\ token'[u].state = IF u = t THEN "revoked" ELSE token[u].state
    BY <2>4 DEF Token
  <2>6. \A u \in Tokens : Valid(u)' => Valid(u) /\ u # t
    BY <2>5 DEF Valid
  <2>7. ASSUME NEW q \in Requests, op'[q].root # Null
        PROVE  /\ op'[q].stage \in {"retire", "issue"}
               /\ \A u \in Tokens : Valid(u)' /\ token'[u].root = op'[q].root =>
                     op'[q].stage = "retire" /\ u = op'[q].token
    <3>1. CASE q = r
      BY <2>1, <2>2, <2>3, <2>5, <2>6, <2>7, <3>1 DEF OneInv
    <3>2. CASE q # r
      BY <2>2, <2>5, <2>6, <2>7, <3>2 DEF OneInv
    <3> QED BY <3>1, <3>2
  <2> QED BY <2>5, <2>6, <2>7 DEF OneInv
<1>6. ASSUME NEW r \in Requests, RevokeAll(r) PROVE OneInv'
  <2>1. /\ \A t \in Tokens : ~Valid(t)'
        /\ op'[r] = Idle /\ \A q \in Requests \ {r} : op'[q] = op[q]
    BY <1>6, RevokeAllFacts
  <2> QED BY <2>1, IdleType DEF OneInv
<1>7. CASE LockLapses \/ ForgotPassword \/ OfferLapses \/ UNCHANGED account
  <2>1. token' = token /\ op' = op
    BY <1>7 DEF LockLapses, ForgotPassword, OfferLapses, account
  <2> QED BY <2>1 DEF OneInv, Valid
<1>8. Serial \subseteq Requests
  BY AccountAssumption
<1> QED BY <1>2, <1>3, <1>4, <1>5, <1>6, <1>7, <1>8
        DEF Next, TokenStep, SerialStep, ResetPassword, ChangePassword, ChangeRefused, vars

\* A login has one valid refresh token, if its refreshes do not overlap.
THEOREM OneTokenCorrect == Spec => []OneTokenPerLogin
<1> DEFINE I == Cardinality(Serial) <= 1 => OneInv
<1>1. Init => I
  BY DEF Init, OneInv, NoToken, Idle, Valid
<1>2. TypeInv /\ I /\ [Next]_vars => I'
  BY OneStep
<1>3. I => OneTokenPerLogin
  BY DEF OneInv, OneTokenPerLogin
<1> HIDE DEF I
<1> QED BY <1>1, <1>2, <1>3, TypeAlways, PTL DEF Spec
-----------------------------------------------------------------------------
(* Passwords.  The window is the history and the password; a request about  *)
(* to write has seen both, and its password is not among them.              *)

Distinct(s) == \A i, j \in 1 .. Len(s) : s[i] = s[j] => i = j
Foreign(s, e) == \A i \in 1 .. Len(s) : s[i] # e

LEMMA DistinctAppend ==
    ASSUME NEW S, NEW s \in Seq(S), NEW e \in S, Distinct(s), Foreign(s, e)
    PROVE  Distinct(Append(s, e))
<1> DEFINE a == Append(s, e)
<1>1. /\ Len(s) \in Nat /\ Len(a) = Len(s) + 1
      /\ \A i \in 1 .. Len(s) : a[i] = s[i]
      /\ a[Len(s) + 1] = e
  BY AppendProperties, LenProperties
<1> HIDE DEF a
<1>2. ASSUME NEW i \in 1 .. Len(a), NEW j \in 1 .. Len(a), a[i] = a[j] PROVE i = j
  <2>1. i \in 1 .. Len(s) \/ i = Len(s) + 1
    BY <1>1
  <2>2. j \in 1 .. Len(s) \/ j = Len(s) + 1
    BY <1>1
  <2> QED BY <1>1, <1>2, <2>1, <2>2 DEF Distinct, Foreign
<1>3. Distinct(a)
  BY <1>2 DEF Distinct
<1> QED BY <1>3 DEF a

LEMMA DistinctLastOf ==
    ASSUME NEW S, NEW s \in Seq(S), NEW n \in Nat, Distinct(s)
    PROVE  Distinct(LastOf(s, n))
<1> DEFINE k == IF Len(s) > n THEN Len(s) - n ELSE 0
           a == LastOf(s, n)
<1>1. /\ Len(s) \in Nat /\ k \in Nat /\ Len(a) \in Nat /\ Len(a) + k = Len(s)
      /\ \A i \in 1 .. Len(a) : a[i] = s[i + k]
  <2>1. /\ Len(LastOf(s, n)) = IF Len(s) > n THEN n ELSE Len(s)
        /\ \A i \in 1 .. Len(LastOf(s, n)) : LastOf(s, n)[i] = s[i + k]
    BY LastOfType
  <2>2. Len(s) \in Nat
    BY LenProperties
  <2> QED BY <2>1, <2>2
<1> HIDE DEF k, a
<1>2. ASSUME NEW i \in 1 .. Len(a), NEW j \in 1 .. Len(a), a[i] = a[j] PROVE i = j
  <2>1. i + k \in 1 .. Len(s) /\ j + k \in 1 .. Len(s)
    BY <1>1
  <2>2. s[i + k] = s[j + k]
    BY <1>1, <1>2
  <2>3. i + k = j + k
    BY <2>1, <2>2 DEF Distinct
  <2> QED BY <1>1, <2>3
<1>3. Distinct(a)
  BY <1>2 DEF Distinct
<1> QED BY <1>3 DEF a

ReuseInv ==
    /\ recent = Append(user.history, user.password)
    /\ Distinct(recent)
    /\ \A r \in Requests : op[r].stage = "write" =>
          /\ op[r].old = user.password /\ op[r].history = user.history
          /\ \A i \in 1 .. Len(recent) : recent[i] # op[r].password

\* No other step begins a write or touches the password.
LEMMA NoWrite ==
    ASSUME TypeInv, NEW r \in Requests,
           LoginStep(r) \/ TokenStep(r) \/ Fails(r) \/ (\E t \in Tokens : Refresh(r, t))
    PROVE  /\ user'.password = user.password /\ user'.history = user.history /\ recent' = recent
           /\ op'[r].stage # "write" /\ \A q \in Requests \ {r} : op'[q] = op[q]
<1> DEFINE Rest1 == user'.password = user.password /\ user'.history = user.history /\ recent' = recent
           Goal == Rest1 /\ op'[r].stage # "write" /\ \A q \in Requests \ {r} : op'[q] = op[q]
<1>1. op \in [Requests -> Op] /\ op[r] \in Op /\ user \in User
  BY DEF TypeInv, RowsOK
<1>2. ASSUME NEW o, o.stage # "write", op' = [op EXCEPT ![r] = o], Rest1 PROVE Goal
  BY <1>1, <1>2
<1>3. ASSUME NEW next \in Op, NEW p \in Passwords, Validate(r, next, p) PROVE Goal
  <2>1. Rest1
    BY <1>3 DEF Validate
  <2>2. ASSUME Refuse(r) PROVE Goal
    <3>1. op' = [op EXCEPT ![r] = Idle] /\ Idle.stage # "write"
      BY <2>2, IdleType DEF Refuse, Goes, Ends
    <3> HIDE DEF Goal, Rest1
    <3> QED BY <1>2, <2>1, <3>1
  <2>3. ASSUME NEW s \in {"lock", "clear", "miss"}, op' = [op EXCEPT ![r] = [next EXCEPT !.stage = s]]
        PROVE  Goal
    <3> DEFINE o == [next EXCEPT !.stage = s]
    <3>1. o.stage # "write"
      BY DEF Op
    <3>2. op' = [op EXCEPT ![r] = o]
      BY <2>3
    <3> HIDE DEF o, Goal, Rest1
    <3> QED BY <1>2, <2>1, <3>1, <3>2
  <2>4. ASSUME BeginLock(r, next) \/ Compare(r, next, p) PROVE Goal
    <3>1. \E s \in {"lock", "clear", "miss"} : op' = [op EXCEPT ![r] = [next EXCEPT !.stage = s]]
      BY <2>4 DEF BeginLock, Compare, Goes
    <3> HIDE DEF Goal
    <3> QED BY <2>3, <3>1
  <2> HIDE DEF Goal
  <2> QED BY <1>3, <2>2, <2>4 DEF Validate
<1>4. ASSUME LoginStep(r) PROVE Goal
  <2>1. ASSUME NEW p \in Passwords, Login(r, p) PROVE Goal
    <3> DEFINE next == [Idle EXCEPT !.password = p]
    <3>1. next \in Op
      BY IdleType DEF Idle, Op, OrNull
    <3>2. Validate(r, next, p)
      BY <2>1 DEF Login
    <3> HIDE DEF next, Goal
    <3> QED BY <1>3, <3>1, <3>2
  <2>2. ASSUME LoginAgain(r) PROVE Goal
    <3>1. op[r].password \in Passwords /\ Validate(r, op[r], op[r].password)
      BY <2>2 DEF LoginAgain, TypeInv, Shape, LoginStages
    <3> HIDE DEF Goal
    <3> QED BY <1>1, <1>3, <3>1
  <2>3. ASSUME Lock(r) \/ Miss(r) PROVE Goal
    <3>1. op' = [op EXCEPT ![r] = Idle] /\ Idle.stage # "write"
      BY <2>3, IdleType DEF Lock, Miss, Goes, Ends
    <3>2. Rest1
      BY <1>1, <2>3 DEF Lock, Miss, User
    <3> HIDE DEF Goal, Rest1
    <3> QED BY <1>2, <3>1, <3>2
  <2>4. ASSUME Clear(r) PROVE Goal
    <3> DEFINE o == [op[r] EXCEPT !.stage = IF op[r].guarded THEN "issue" ELSE "validate", !.guarded = TRUE]
    <3>1. o.stage # "write"
      BY <1>1 DEF Op
    <3>2. op' = [op EXCEPT ![r] = o]
      BY <2>4 DEF Clear, Goes
    <3>3. Rest1
      BY <1>1, <2>4 DEF Clear, User
    <3> HIDE DEF o, Goal, Rest1
    <3> QED BY <1>2, <3>1, <3>2, <3>3
  <2> HIDE DEF Goal
  <2> QED BY <1>4, <2>1, <2>2, <2>3, <2>4 DEF LoginStep
<1>5. ASSUME Fails(r) \/ RevokeAll(r) \/ (\E t \in Tokens : Issue(r, t)) PROVE Goal
  <2>1. op' = [op EXCEPT ![r] = Idle] /\ Idle.stage # "write" /\ Rest1
    BY <1>5, IdleType DEF Fails, RevokeAll, Issue, Goes, Ends
  <2> HIDE DEF Goal, Rest1
  <2> QED BY <1>2, <2>1
<1>6. ASSUME NEW t \in Tokens, Logout(r, t) PROVE Goal
  <2> DEFINE o == [Idle EXCEPT !.stage = "block", !.token = t]
  <2>1. o.stage # "write"
    BY DEF Idle
  <2>2. op' = [op EXCEPT ![r] = o] /\ Rest1
    BY <1>6 DEF Logout, Goes
  <2> HIDE DEF o, Goal, Rest1
  <2> QED BY <1>2, <2>1, <2>2
<1>7. ASSUME NEW t \in Tokens, Refresh(r, t) PROVE Goal
  BY <1>7, RefreshFacts DEF Refresh
<1>8. ASSUME Retire(r) \/ Block(r) PROVE Goal
  <2>1. PICK s \in {"issue", "revokeAll"} : op' = [op EXCEPT ![r] = [op[r] EXCEPT !.stage = s]] /\ Rest1
    BY <1>8 DEF Retire, Block, Goes
  <2> DEFINE o == [op[r] EXCEPT !.stage = s]
  <2>2. o.stage # "write"
    BY <1>1 DEF Op
  <2>3. op' = [op EXCEPT ![r] = o]
    BY <2>1
  <2> HIDE DEF o, Goal, Rest1
  <2> QED BY <1>2, <2>1, <2>2, <2>3
<1>9. Goal
  <2> HIDE DEF Goal
  <2> QED BY <1>4, <1>5, <1>6, <1>7, <1>8 DEF TokenStep
<1> QED BY <1>9

LEMMA ReuseStep ==
    ASSUME TypeInv, ReuseInv, [Next]_vars, Cardinality(Serial) <= 1
    PROVE  ReuseInv'
<1>1. /\ op \in [Requests -> Op] /\ user \in User
      /\ recent \in Seq(Passwords) /\ user.history \in Seq(Passwords) /\ user.password \in Passwords
      /\ historyLimit \in Nat
  BY AccountAssumption DEF TypeInv, RowsOK, User
<1>2. ASSUME NEW r \in Requests,
             LoginStep(r) \/ TokenStep(r) \/ Fails(r) \/ (\E t \in Tokens : Refresh(r, t))
      PROVE  ReuseInv'
  <2>1. /\ user'.password = user.password /\ user'.history = user.history /\ recent' = recent
        /\ op'[r].stage # "write" /\ \A q \in Requests \ {r} : op'[q] = op[q]
    BY <1>2, NoWrite
  <2>2. recent' = Append(user'.history, user'.password)
    BY <2>1 DEF ReuseInv
  <2>3. Distinct(recent)'
    BY <2>1 DEF ReuseInv, Distinct
  <2>4. ASSUME NEW q \in Requests, op'[q].stage = "write"
        PROVE  /\ op'[q].old = user'.password /\ op'[q].history = user'.history
               /\ \A i \in 1 .. Len(recent') : recent'[i] # op'[q].password
    <3>1. op'[q] = op[q]
      BY <2>1, <2>4
    <3> QED BY <2>1, <2>4, <3>1 DEF ReuseInv
  <2> QED BY <2>2, <2>3, <2>4 DEF ReuseInv
<1>3. ASSUME NEW r \in Requests, NEW p \in Passwords, NEW b \in BOOLEAN, BeginWrite(r, p, b)
      PROVE  ReuseInv'
  <2> DEFINE o == [Idle EXCEPT !.stage = "write", !.password = p, !.old = user.password,
                               !.history = user.history, !.resets = b]
  <2>1. o.password = p /\ o.old = user.password /\ o.history = user.history
    BY DEF Idle
  <2>2. op' = [op EXCEPT ![r] = o] /\ user' = user /\ recent' = recent /\ Fresh(p)
    BY <1>3 DEF BeginWrite, Goes
  <2> HIDE DEF o
  <2>3. op'[r] = o /\ \A q \in Requests \ {r} : op'[q] = op[q]
    BY <1>1, <2>2
  <2>4. \A i \in 1 .. Len(recent) : recent[i] # p
    <3>1. /\ Len(recent) = Len(user.history) + 1 /\ Len(user.history) \in Nat
          /\ \A i \in 1 .. Len(user.history) : recent[i] = user.history[i]
          /\ recent[Len(user.history) + 1] = user.password
      BY <1>1, AppendProperties, LenProperties DEF ReuseInv
    <3>2. ASSUME NEW i \in 1 .. Len(recent) PROVE recent[i] # p
      <4>1. i \in 1 .. Len(user.history) \/ i = Len(user.history) + 1
        BY <3>1
      <4> QED BY <2>2, <3>1, <4>1 DEF Fresh
    <3> QED BY <3>2
  <2> QED BY <2>1, <2>2, <2>3, <2>4 DEF ReuseInv, Distinct
<1>4. ASSUME NEW r \in Requests, Write(r) PROVE ReuseInv'
  <2> DEFINE p == op[r].password
             h == LastOf(recent, historyLimit)
  <2>1. /\ op[r].old = user.password /\ op[r].history = user.history /\ p \in Passwords
        /\ Foreign(recent, p)
    BY <1>4 DEF Write, ReuseInv, TypeInv, Shape, Foreign
  <2>2. recent' = LastOf(Append(recent, p), historyLimit + 1)
    BY <1>4 DEF Write
  <2>3. user'.history = h /\ user'.password = p
    <3>1. user'.history = LastOf(Append(op[r].history, op[r].old), historyLimit) /\ user'.password = p
      BY <1>1, <1>4 DEF Write, User
    <3> QED BY <2>1, <3>1 DEF ReuseInv
  <2> HIDE DEF p
  <2>4. recent' = Append(user'.history, user'.password)
    <3>1. LastOf(Append(recent, p), historyLimit + 1) = Append(h, p)
      BY <1>1, <2>1, LastOfAppend
    <3> HIDE DEF h
    <3> QED BY <2>2, <2>3, <3>1
  <2>5. Distinct(recent')
    <3> DEFINE longer == Append(recent, p)
               m == historyLimit + 1
    <3>1. longer \in Seq(Passwords) /\ m \in Nat
      BY <1>1, <2>1
    <3>2. Distinct(longer)
      BY <1>1, <2>1, DistinctAppend DEF ReuseInv
    <3>3. recent' = LastOf(longer, m)
      BY <2>2
    <3> HIDE DEF longer, m
    <3> QED BY <3>1, <3>2, <3>3, DistinctLastOf
  <2>6. ASSUME NEW q \in Requests PROVE op'[q].stage # "write"
    <3>1. CASE q = r
      <4>1. PICK o \in {Idle, [Idle EXCEPT !.stage = "revokeAll"]} : op' = [op EXCEPT ![r] = o]
        BY <1>4 DEF Write, Goes
      <4>2. o.stage # "write"
        BY DEF Idle
      <4> QED BY <1>1, <3>1, <4>1, <4>2
    <3>2. CASE q # r
      <4>1. op'[q] = op[q]
        BY <1>1, <1>4, <3>2 DEF Write, Goes
      <4>2. op[q].stage # "write"
        BY <1>4, <3>2, SingleSerial DEF Write, TypeInv, Serialised
      <4> QED BY <4>1, <4>2
    <3> QED BY <3>1, <3>2
  <2>7. Distinct(recent)'
    BY <2>5 DEF Distinct
  <2> QED BY <2>4, <2>6, <2>7 DEF ReuseInv
<1>5. CASE LockLapses \/ ForgotPassword \/ OfferLapses \/ UNCHANGED account
  <2>1. user'.password = user.password /\ user'.history = user.history /\ recent' = recent /\ op' = op
    BY <1>1, <1>5 DEF LockLapses, ForgotPassword, OfferLapses, account, User
  <2> QED BY <2>1 DEF ReuseInv, Distinct
<1>6. Serial \subseteq Requests
  BY AccountAssumption
<1> QED BY <1>2, <1>3, <1>4, <1>5, <1>6 DEF Next, SerialStep, ResetPassword, ChangePassword, ChangeRefused, vars

\* No password of the window is used twice, if no two changes overlap.
THEOREM ReuseCorrect == Spec => []NoReuse
<1> DEFINE I == Cardinality(Serial) <= 1 => ReuseInv
<1>1. Init => I
  <2>1. ASSUME Init PROVE ReuseInv
    <3>1. recent = <<First>> /\ user.history = <<>> /\ user.password = First
      BY <2>1 DEF Init
    <3>2. Append(<<>>, First) = <<First>> /\ Len(<<First>>) = 1
      OBVIOUS
    <3>3. \A r \in Requests : op[r].stage # "write"
      BY <2>1, IdleType DEF Init
    <3> QED BY <3>1, <3>2, <3>3 DEF ReuseInv, Distinct
  <2> QED BY <2>1
<1>2. TypeInv /\ I /\ [Next]_vars => I'
  BY ReuseStep
<1>3. I => NoReuse
  BY DEF ReuseInv, NoReuse, Distinct
<1> HIDE DEF I
<1> QED BY <1>1, <1>2, <1>3, TypeAlways, PTL DEF Spec
=============================================================================
