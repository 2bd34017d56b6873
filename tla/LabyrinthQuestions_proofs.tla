---- MODULE LabyrinthQuestions_proofs ----
(***************************************************************************)
(* Theorems about LabyrinthQuestions, for all lines, texts, questions,     *)
(* members, channels and roles.                                            *)
(***************************************************************************)
EXTENDS LabyrinthQuestions, SequenceTheorems, WellFoundedInduction, TLAPS

---------------------------------------------------------------------------
\* Lines two by two.

LEMMA Halves ==
    /\ \A n \in Nat : n \div 2 \in Nat /\ 2 * (n \div 2) \in 0..n
    /\ \A n \in Nat : (2 * n) \div 2 = n
    /\ \A n, m \in Nat : (2 * n + m) \div 2 = n + (m \div 2)
OBVIOUS

Paired(s) == s \in Seq(Lines) /\ Len(s) = 2 * (Len(s) \div 2)

LEMMA EntriesAre ==
    ASSUME NEW s \in Seq(Lines)
    PROVE  /\ Paired(Entries(s))
           /\ Len(Entries(s)) = 2 * (Len(s) \div 2)
           /\ \A i \in 1..Len(Entries(s)) : Entries(s)[i] = s[i]
<1> DEFINE n == 2 * (Len(s) \div 2)
<1>1. Len(s) \in Nat
  OBVIOUS
<1>2. n \in 0..Len(s) /\ Len(s) \div 2 \in Nat
  BY <1>1, Halves
<1>3. n \div 2 = Len(s) \div 2
  BY <1>2, Halves
<1>4. n = 2 * (n \div 2)
  BY <1>3
<1> HIDE DEF n
<1>5. /\ SubSeq(s, 1, n) \in Seq(Lines) /\ Len(SubSeq(s, 1, n)) = n
      /\ \A i \in 1..n : SubSeq(s, 1, n)[i] = s[i]
  BY <1>1, <1>2, SubSeqProperties
<1>6. Entries(s) = SubSeq(s, 1, n)
  BY DEF Entries, n
<1>7. Len(Entries(s)) = n
  BY <1>5, <1>6
<1>8. Paired(Entries(s))
  BY <1>4, <1>5, <1>6 DEF Paired
<1> QED BY <1>5, <1>6, <1>7, <1>8 DEF n

\* Lines that pair up are read back as they are.
LEMMA PairedRead ==
    ASSUME NEW s, Paired(s)
    PROVE  Entries(s) = s
<1>1. s \in Seq(Lines) /\ Entries(s) \in Seq(Lines) /\ Len(Entries(s)) = Len(s)
  BY EntriesAre DEF Paired
<1> QED BY <1>1, EntriesAre, SeqEqual

\* Lines put after lines that pair up do not shift these.
LEMMA AfterPaired ==
    ASSUME NEW s, Paired(s), NEW z \in Seq(Lines)
    PROVE  Entries(s \o z) = s \o Entries(z) /\ Paired(s \o Entries(z))
<1> DEFINE l == s \o Entries(z)
           r == Entries(s \o z)
<1>1. /\ s \in Seq(Lines) /\ Len(s) \in Nat /\ Len(z) \in Nat
      /\ Entries(z) \in Seq(Lines) /\ Len(Entries(z)) = 2 * (Len(z) \div 2)
  BY EntriesAre DEF Paired
<1>2. /\ s \o z \in Seq(Lines) /\ Len(s \o z) = Len(s) + Len(z)
      /\ \A i \in 1..(Len(s) + Len(z)) :
            (s \o z)[i] = IF i <= Len(s) THEN s[i] ELSE z[i - Len(s)]
  BY <1>1, ConcatProperties
<1>3. /\ l \in Seq(Lines) /\ Len(l) = Len(s) + 2 * (Len(z) \div 2)
      /\ \A i \in 1..Len(l) : l[i] = IF i <= Len(s) THEN s[i] ELSE Entries(z)[i - Len(s)]
  <2>1. Len(Entries(z)) \in Nat
    BY <1>1
  <2> QED BY <1>1, <2>1, ConcatProperties
<1> DEFINE k == Len(s) \div 2
           h == Len(z) \div 2
<1>4. k \in Nat /\ h \in Nat /\ 2 * h <= Len(z) /\ Len(s) = 2 * k
  BY <1>1, Halves DEF Paired
<1>5. (2 * k + Len(z)) \div 2 = k + h
  BY <1>1, <1>4, Halves
<1> HIDE DEF k, h, l
<1>6. r \in Seq(Lines) /\ Len(r) = 2 * (k + h) /\ \A i \in 1..Len(r) : r[i] = (s \o z)[i]
  <2>1. Len(s \o z) \div 2 = k + h
    BY <1>2, <1>4, <1>5
  <2>2. /\ r \in Seq(Lines) /\ Len(r) = 2 * (Len(s \o z) \div 2)
        /\ \A i \in 1..Len(r) : r[i] = (s \o z)[i]
    BY <1>2, EntriesAre DEF Paired
  <2> QED BY <2>1, <2>2
<1>7. Len(l) = 2 * (k + h)
  BY <1>3, <1>4 DEF h
<1> HIDE DEF r
<1>8. ASSUME NEW i \in 1..Len(l) PROVE l[i] = r[i]
  <2>1. i \in 1..(Len(s) + Len(z)) /\ i \in 1..Len(r) /\ Len(l) = Len(s) + 2 * h
    BY <1>1, <1>4, <1>6, <1>7
  <2>2. CASE i <= Len(s)
    BY <1>2, <1>3, <1>6, <2>1, <2>2
  <2>3. CASE ~(i <= Len(s))
    <3>1. i - Len(s) \in 1..(2 * h)
      BY <1>1, <1>4, <2>1, <2>3
    <3>2. Entries(z)[i - Len(s)] = z[i - Len(s)]
      BY <1>1, <3>1, EntriesAre DEF h
    <3> QED BY <1>2, <1>3, <1>6, <2>1, <2>3, <3>2
  <2> QED BY <2>2, <2>3
<1>9. l = r
  BY <1>3, <1>6, <1>7, <1>8, SeqEqual
<1>10. Paired(l)
  <2>1. (2 * (k + h)) \div 2 = k + h
    BY <1>4, Halves
  <2> QED BY <1>3, <1>7, <2>1 DEF Paired
<1> QED BY <1>9, <1>10 DEF l, r

---------------------------------------------------------------------------
\* What is read of a question.

\* A record as it is read: a line for every setting but the hint, and lines two by two.
Clean(r) ==
    /\ r \in Questioninfo
    /\ r.answer \in Texts(Lines)
    /\ Paired(r.multipleanswer)

\* A record with another text for one setting.
With(r, x, text) == [s \in DOMAIN Unset |-> IF s = x THEN text ELSE r[s]]

LEMMA Settings ==
    DOMAIN Unset = {"answer", "channelid", "roleid", "hint", "multipleanswer", "permission"}
BY DEF Unset

LEMMA UnsetClean == Clean(Unset)
<1>1. inv \in Lines
  BY QuestionAssumption
<1>2. << >> \in Seq(Lines) /\ Len(<< >>) = 2 * (Len(<< >>) \div 2)
  BY Halves
<1> QED BY <1>1, <1>2 DEF Clean, Unset, Questioninfo, Texts, Paired

\* A text of one line is read as it is.
LEMMA TextRead ==
    ASSUME NEW t \in Texts(Lines)
    PROVE  << Glue(t) >> = t /\ << Head(t) >> = t
<1>1. PICK l \in Lines : t = << l >>
  BY DEF Texts
<1> QED BY <1>1, GlueAssumption

LEMMA SomeTexts ==
    /\ Texts(Channels \cup {inv, Kick}) \subseteq Texts(Lines)
    /\ Texts(Roles \cup {inv}) \subseteq Texts(Lines)
BY QuestionAssumption DEF Texts

LEMMA GluedText == \A t \in Texts(Lines) \cup Answers : << Glue(t) >> \in Texts(Lines)
<1>1. \A t \in Texts(Lines) : << Glue(t) >> \in Texts(Lines)
  BY TextRead
<1>2. \A t \in Answers : << Glue(t) >> \in Texts(Lines)
  BY GlueAssumption DEF Texts
<1> QED BY <1>1, <1>2

LEMMA WithFields ==
    ASSUME NEW r, NEW x \in DOMAIN Unset, NEW text
    PROVE  With(r, x, text) =
             [answer         |-> IF x = "answer" THEN text ELSE r.answer,
              channelid      |-> IF x = "channelid" THEN text ELSE r.channelid,
              roleid         |-> IF x = "roleid" THEN text ELSE r.roleid,
              hint           |-> IF x = "hint" THEN text ELSE r.hint,
              multipleanswer |-> IF x = "multipleanswer" THEN text ELSE r.multipleanswer,
              permission     |-> IF x = "permission" THEN text ELSE r.permission]
BY Settings DEF With

LEMMA WithItself ==
    ASSUME NEW r, NEW x, NEW text
    PROVE  LET f == With(r, x, text)
           IN  f = [answer |-> f.answer, channelid |-> f.channelid, roleid |-> f.roleid,
                    hint |-> f.hint, multipleanswer |-> f.multipleanswer,
                    permission |-> f.permission]
<1> DEFINE f == With(r, x, text)
<1>1. f = [s \in {"answer", "channelid", "roleid", "hint", "multipleanswer", "permission"} |-> f[s]]
  BY Settings DEF With
<1> HIDE DEF f
<1> QED BY <1>1 DEF f

\* What a file of one of the six kinds is read as.
LEMMA ParsedType ==
    ASSUME NEW f \in Questioninfo
    PROVE  /\ Parsed(f) \in Questioninfo /\ Clean(Parsed(f))
           /\ Parsed(f).answer = << Glue(f.answer) >>
           /\ Parsed(f).channelid = f.channelid
           /\ Parsed(f).roleid = f.roleid
           /\ Parsed(f).hint = f.hint
           /\ Parsed(f).multipleanswer = Entries(f.multipleanswer)
           /\ Parsed(f).permission = f.permission
<1>1. /\ f.answer \in Texts(Lines) \cup Answers
      /\ f.channelid \in Texts(Channels \cup {inv, Kick})
      /\ f.roleid \in Texts(Roles \cup {inv})
      /\ f.hint \in Texts({inv}) \cup Hints
      /\ f.multipleanswer \in Seq(Lines)
      /\ f.permission \in Texts(Roles \cup {inv})
  BY DEF Questioninfo
<1>2. << Glue(f.answer) >> \in Texts(Lines)
  BY <1>1, GluedText
<1>3. << Glue(f.channelid) >> = f.channelid /\ << Glue(f.roleid) >> = f.roleid
  BY <1>1, SomeTexts, TextRead
<1>4. << Head(f.permission) >> = f.permission
  BY <1>1, SomeTexts, TextRead
<1>5. Paired(Entries(f.multipleanswer))
  BY <1>1, EntriesAre
<1>6. Parsed(f) = [answer         |-> << Glue(f.answer) >>,
                   channelid      |-> f.channelid,
                   roleid         |-> f.roleid,
                   hint           |-> f.hint,
                   multipleanswer |-> Entries(f.multipleanswer),
                   permission     |-> f.permission]
  BY <1>3, <1>4 DEF Parsed
<1> QED BY <1>1, <1>2, <1>5, <1>6 DEF Clean, Questioninfo, Paired

\* Two records of the six settings are equal if they agree on each.
LEMMA SameSettings ==
    ASSUME NEW r \in Questioninfo, NEW s \in Questioninfo,
           r.answer = s.answer, r.channelid = s.channelid, r.roleid = s.roleid, r.hint = s.hint,
           r.multipleanswer = s.multipleanswer, r.permission = s.permission
    PROVE  r = s
<1>1. ASSUME NEW t \in Questioninfo
      PROVE  t = [answer |-> t.answer, channelid |-> t.channelid, roleid |-> t.roleid,
                  hint |-> t.hint, multipleanswer |-> t.multipleanswer,
                  permission |-> t.permission]
  BY DEF Questioninfo
<1>2. r = [answer |-> r.answer, channelid |-> r.channelid, roleid |-> r.roleid,
           hint |-> r.hint, multipleanswer |-> r.multipleanswer, permission |-> r.permission]
  BY <1>1
<1>3. s = [answer |-> s.answer, channelid |-> s.channelid, roleid |-> s.roleid,
           hint |-> s.hint, multipleanswer |-> s.multipleanswer, permission |-> s.permission]
  BY <1>1
<1> QED BY <1>2, <1>3

\* A record that was read is printed and read again without loss.
LEMMA CleanRead ==
    ASSUME NEW r, Clean(r)
    PROVE  Parsed(r) = r
<1>1. r \in Questioninfo /\ r.answer \in Texts(Lines) /\ Paired(r.multipleanswer)
  BY DEF Clean
<1>2. Entries(r.multipleanswer) = r.multipleanswer /\ << Glue(r.answer) >> = r.answer
  BY <1>1, PairedRead, TextRead
<1> QED BY <1>1, <1>2, ParsedType, SameSettings

\* The text is given for the setting x of r, and is read as value from then on.
ReadBack(r, x, text, value) ==
    \/ x = "answer" /\ text \in Answers /\ value = << Glue(text) >>
    \/ x = "channelid" /\ text \in Texts(Channels) /\ value = text
    \/ x = "roleid" /\ text \in Texts(Roles) /\ value = text
    \/ x = "hint" /\ text \in Hints /\ value = text
    \/ x = "permission" /\ text \in Texts(Roles) /\ value = text
    \/ /\ x = "multipleanswer"
       /\ \E z \in Seq(Lines) : /\ text = r.multipleanswer \o z
                                /\ value = r.multipleanswer \o Entries(z)

\* A text put in for one setting is read back in its place, and leaves the others.
LEMMA OneSettingRead ==
    ASSUME NEW r, Clean(r), NEW x \in DOMAIN Unset, NEW text, NEW value, ReadBack(r, x, text, value)
    PROVE  /\ With(r, x, text) \in Questioninfo
           /\ Parsed(With(r, x, text)) = With(r, x, value)
<1> DEFINE f == With(r, x, text)
           g == With(r, x, value)
<1>1. /\ f.answer = IF x = "answer" THEN text ELSE r.answer
      /\ f.channelid = IF x = "channelid" THEN text ELSE r.channelid
      /\ f.roleid = IF x = "roleid" THEN text ELSE r.roleid
      /\ f.hint = IF x = "hint" THEN text ELSE r.hint
      /\ f.multipleanswer = IF x = "multipleanswer" THEN text ELSE r.multipleanswer
      /\ f.permission = IF x = "permission" THEN text ELSE r.permission
  BY WithFields
<1>2. /\ g.answer = IF x = "answer" THEN value ELSE r.answer
      /\ g.channelid = IF x = "channelid" THEN value ELSE r.channelid
      /\ g.roleid = IF x = "roleid" THEN value ELSE r.roleid
      /\ g.hint = IF x = "hint" THEN value ELSE r.hint
      /\ g.multipleanswer = IF x = "multipleanswer" THEN value ELSE r.multipleanswer
      /\ g.permission = IF x = "permission" THEN value ELSE r.permission
  BY WithFields
<1>3. /\ r.answer \in Texts(Lines)
      /\ r.channelid \in Texts(Channels \cup {inv, Kick})
      /\ r.roleid \in Texts(Roles \cup {inv})
      /\ r.hint \in Texts({inv}) \cup Hints
      /\ Paired(r.multipleanswer) /\ r.multipleanswer \in Seq(Lines)
      /\ r.permission \in Texts(Roles \cup {inv})
  BY DEF Clean, Questioninfo
<1>4. << Glue(r.answer) >> = r.answer /\ Entries(r.multipleanswer) = r.multipleanswer
  BY <1>3, TextRead, PairedRead
<1>5. Texts(Channels) \subseteq Texts(Channels \cup {inv, Kick}) /\ Texts(Roles) \subseteq Texts(Roles \cup {inv})
  BY DEF Texts
<1>6. x = "multipleanswer" => /\ text \in Seq(Lines) /\ value \in Seq(Lines)
                              /\ Entries(text) = value
  <2>1. SUFFICES ASSUME x = "multipleanswer"
                 PROVE  text \in Seq(Lines) /\ value \in Seq(Lines) /\ Entries(text) = value
    OBVIOUS
  <2>2. PICK z \in Seq(Lines) : /\ text = r.multipleanswer \o z
                                /\ value = r.multipleanswer \o Entries(z)
    BY <2>1 DEF ReadBack
  <2>3. Entries(text) = value /\ Paired(value)
    BY <1>3, <2>2, AfterPaired
  <2>4. text \in Seq(Lines)
    BY <1>3, <2>2, ConcatProperties
  <2> QED BY <2>3, <2>4 DEF Paired
<1>7. /\ x = "answer" => text \in Answers /\ value = << Glue(text) >>
      /\ x = "channelid" => text \in Texts(Channels) /\ value = text
      /\ x = "roleid" => text \in Texts(Roles) /\ value = text
      /\ x = "hint" => text \in Hints /\ value = text
      /\ x = "permission" => text \in Texts(Roles) /\ value = text
  BY DEF ReadBack
<1>8. /\ f = [answer |-> f.answer, channelid |-> f.channelid, roleid |-> f.roleid,
              hint |-> f.hint, multipleanswer |-> f.multipleanswer, permission |-> f.permission]
      /\ g = [answer |-> g.answer, channelid |-> g.channelid, roleid |-> g.roleid,
              hint |-> g.hint, multipleanswer |-> g.multipleanswer, permission |-> g.permission]
  BY WithItself
<1> HIDE DEF f, g
<1>9. f \in Questioninfo
  <2>1. /\ f.answer \in Texts(Lines) \cup Answers
        /\ f.channelid \in Texts(Channels \cup {inv, Kick})
        /\ f.roleid \in Texts(Roles \cup {inv})
        /\ f.hint \in Texts({inv}) \cup Hints
        /\ f.multipleanswer \in Seq(Lines)
        /\ f.permission \in Texts(Roles \cup {inv})
    BY <1>1, <1>3, <1>5, <1>6, <1>7
  <2> QED BY <1>8, <2>1 DEF Questioninfo
<1>10. g \in Questioninfo
  <2>1. /\ g.answer \in Texts(Lines) \cup Answers
        /\ g.channelid \in Texts(Channels \cup {inv, Kick})
        /\ g.roleid \in Texts(Roles \cup {inv})
        /\ g.hint \in Texts({inv}) \cup Hints
        /\ g.multipleanswer \in Seq(Lines)
        /\ g.permission \in Texts(Roles \cup {inv})
    BY <1>2, <1>3, <1>5, <1>6, <1>7, GluedText
  <2> QED BY <1>8, <2>1 DEF Questioninfo
<1>11. << Glue(f.answer) >> = g.answer /\ Entries(f.multipleanswer) = g.multipleanswer
  BY <1>1, <1>2, <1>4, <1>6, <1>7
<1>12. /\ f.channelid = g.channelid /\ f.roleid = g.roleid /\ f.hint = g.hint
       /\ f.permission = g.permission
  BY <1>1, <1>2, <1>7
<1>13. Parsed(f) = g
  BY <1>9, <1>10, <1>11, <1>12, ParsedType, SameSettings
<1> QED BY <1>9, <1>13 DEF f, g

---------------------------------------------------------------------------
\* What a command leaves in the files.

\* The inductive invariant: a question that was deleted is read as it was given, too.
QuestionsInv == TypeOK /\ \A q \in Questions : ReadQuestion(q) = given[q]

LEMMA ReadClean ==
    ASSUME TypeOK, NEW q
    PROVE  Clean(ReadQuestion(q)) /\ ReadQuestion(q) \in Questioninfo
<1>1. CASE Known(q) /\ file[q] # Empty
  <2>1. file[q] \in Questioninfo
    BY <1>1 DEF Known, TypeOK
  <2> QED BY <1>1, <2>1, ParsedType DEF ReadQuestion
<1>2. CASE ~(Known(q) /\ file[q] # Empty)
  BY <1>2, UnsetClean DEF ReadQuestion, Clean
<1> QED BY <1>1, <1>2

\* A command writes f, which is read as v.
Puts(q, f, v) ==
    /\ Write(q, f)
    /\ given' = [given EXCEPT ![q] = v]
    /\ deleted' \in SUBSET Questions /\ deleted \subseteq deleted'
    /\ v \in Questioninfo
    /\ \/ f = Empty /\ v = Unset
       \/ /\ f \in Questioninfo /\ v = Parsed(f)
          /\ \/ v.multipleanswer = ReadQuestion(q).multipleanswer
             \/ \E z \in Seq(Lines) : v.multipleanswer = ReadQuestion(q).multipleanswer \o z

LEMMA SetPuts ==
    ASSUME QuestionsInv, NEW q \in Questions, NEW x \in DOMAIN Unset, NEW text, NEW value,
           Set(q, x, text, value), text # Unset[x],
           ReadBack(ReadQuestion(q), x, text, value)
    PROVE  \E f, v : Puts(q, f, v)
<1> DEFINE r == ReadQuestion(q)
           f == With(r, x, text)
           v == With(r, x, value)
<1>1. Clean(r) /\ r \in Questioninfo /\ r = given[q] /\ given \in [Questions -> Questioninfo]
      /\ deleted \in SUBSET Questions
  BY ReadClean DEF QuestionsInv, TypeOK
<1>2. f \in Questioninfo /\ Parsed(f) = v
  BY <1>1, OneSettingRead
<1>3. Write(q, f)
  <2> DEFINE change == [Unset EXCEPT ![x] = text]
  <2>1. Write(q, [s \in DOMAIN Unset |-> IF change[s] = Unset[s] THEN r[s] ELSE change[s]])
    BY DEF Set, ChangeQuestion
  <2>2. \A s \in DOMAIN Unset : change[s] = IF s = x THEN text ELSE Unset[s]
    OBVIOUS
  <2> HIDE DEF change, r
  <2>3. [s \in DOMAIN Unset |-> IF change[s] = Unset[s] THEN r[s] ELSE change[s]] = f
    BY <2>2 DEF With
  <2> QED BY <2>1, <2>3
<1>4. given' = [given EXCEPT ![q] = v]
  <2>1. given' = [given EXCEPT ![q] = [given[q] EXCEPT ![x] = value]]
    BY <1>1 DEF Set
  <2>2. DOMAIN r = DOMAIN Unset
    BY <1>1, Settings DEF Questioninfo
  <2>3. [r EXCEPT ![x] = value] = v
    BY <2>2 DEF With
  <2> QED BY <1>1, <2>1, <2>3
<1>5. v \in Questioninfo
  BY <1>2, ParsedType
<1>6. \/ v.multipleanswer = r.multipleanswer
      \/ \E z \in Seq(Lines) : v.multipleanswer = r.multipleanswer \o z
  <2>1. CASE x # "multipleanswer"
    BY <2>1, WithFields
  <2>2. CASE x = "multipleanswer"
    <3>1. v.multipleanswer = value
      BY <2>2, WithFields
    <3>2. PICK z \in Seq(Lines) : value = r.multipleanswer \o Entries(z)
      BY <2>2 DEF ReadBack
    <3>3. Entries(z) \in Seq(Lines)
      BY EntriesAre DEF Paired
    <3> QED BY <3>1, <3>2, <3>3
  <2> QED BY <2>1, <2>2
<1>7. deleted' = deleted
  BY DEF Set
<1> HIDE DEF f, v
<1> QED BY <1>1, <1>2, <1>3, <1>4, <1>5, <1>6, <1>7 DEF Puts

LEMMA Associative ==
    \A r, s, t \in Seq(Lines) : (r \o s) \o t = r \o (s \o t)
BY ConcatAssociative

LEMMA EditPuts ==
    ASSUME QuestionsInv, NEW q \in Questions, Edit(q)
    PROVE  \E f, v : Puts(q, f, v)
<1> USE QuestionAssumption
<1>1. /\ Unset["answer"] = << inv >> /\ Unset["channelid"] = << inv >>
      /\ Unset["roleid"] = << inv >> /\ Unset["hint"] = << inv >>
      /\ Unset["permission"] = << inv >> /\ Unset["multipleanswer"] = << >>
      /\ {"answer", "channelid", "roleid", "hint", "permission", "multipleanswer"}
            \subseteq DOMAIN Unset
  BY DEF Unset
<1>2. \A l \in Channels \cup Roles : << l >> # << inv >>
  OBVIOUS
<1>a. ASSUME NEW t \in Answers, setQuestion(q, t) PROVE \E f, v : Puts(q, f, v)
  <2>1. ReadBack(ReadQuestion(q), "answer", t, << Glue(t) >>) /\ t # Unset["answer"]
    BY <1>1 DEF ReadBack
  <2> QED BY <1>1, <1>a, <2>1, SetPuts DEF setQuestion
<1>c. ASSUME NEW c \in Channels, setChannel(q, c) PROVE \E f, v : Puts(q, f, v)
  <2>1. ReadBack(ReadQuestion(q), "channelid", << c >>, << c >>) /\ << c >> # Unset["channelid"]
    BY <1>1, <1>2 DEF ReadBack, Texts
  <2> QED BY <1>1, <1>c, <2>1, SetPuts DEF setChannel
<1>r. ASSUME NEW x \in Roles, setRole(q, x) PROVE \E f, v : Puts(q, f, v)
  <2>1. ReadBack(ReadQuestion(q), "roleid", << x >>, << x >>) /\ << x >> # Unset["roleid"]
    BY <1>1, <1>2 DEF ReadBack, Texts
  <2> QED BY <1>1, <1>r, <2>1, SetPuts DEF setRole
<1>h. ASSUME NEW t \in Hints, setHint(q, t) PROVE \E f, v : Puts(q, f, v)
  <2>1. ReadBack(ReadQuestion(q), "hint", t, t) /\ t # Unset["hint"]
    BY <1>1 DEF ReadBack
  <2> QED BY <1>1, <1>h, <2>1, SetPuts DEF setHint
<1>p. ASSUME NEW x \in Roles, setPermission(q, x) PROVE \E f, v : Puts(q, f, v)
  <2>1. ReadBack(ReadQuestion(q), "permission", << x >>, << x >>) /\ << x >> # Unset["permission"]
    BY <1>1, <1>2 DEF ReadBack, Texts
  <2> QED BY <1>1, <1>p, <2>1, SetPuts DEF setPermission
<1>m. ASSUME NEW t \in Answers, NEW t2 \in Leads, setMultipleAnswer(q, t, t2)
      PROVE  \E f, v : Puts(q, f, v)
  <2> DEFINE s == ReadQuestion(q).multipleanswer
             z == t \o t2
  <2>1. s = given[q].multipleanswer /\ Clean(ReadQuestion(q)) /\ s \in Seq(Lines)
    BY ReadClean DEF QuestionsInv, Clean, Paired
  <2>2. t \in Seq(Lines) /\ t2 \in Seq(Lines) /\ Len(t) > 0 /\ Len(t2) \in Nat
    <3>1. t \in Seq(Lines) /\ t2 \in Seq(Lines) /\ t # << >>
      OBVIOUS
    <3> QED BY <3>1, EmptySeq
  <2>3. z \in Seq(Lines) /\ Len(z) > 0
    BY <2>2, ConcatProperties
  <2>4. (s \o t) \o t2 = s \o z
    BY <2>1, <2>2, Associative
  <2>5. s \o z # << >>
    <3>1. Len(s \o z) > 0
      <4> HIDE DEF s, z
      <4>1. Len(s) \in Nat /\ Len(z) \in Nat /\ Len(s \o z) = Len(s) + Len(z)
        BY <2>1, <2>3, ConcatProperties
      <4> QED BY <2>3, <4>1
    <3>2. Len(<< >>) = 0
      OBVIOUS
    <3> QED BY <3>1, <3>2
  <2>6. Set(q, "multipleanswer", s \o z, s \o Entries(z))
    BY <1>m, <2>1, <2>4 DEF setMultipleAnswer
  <2>7. ReadBack(ReadQuestion(q), "multipleanswer", s \o z, s \o Entries(z))
    BY <2>3 DEF ReadBack
  <2> QED BY <1>1, <2>5, <2>6, <2>7, SetPuts
<1>d. ASSUME deleteQuestion(q) PROVE \E f, v : Puts(q, f, v)
  <2> DEFINE r == ReadQuestion(q)
  <2>1. Clean(r) /\ r \in Questioninfo /\ r = given[q] /\ given \in [Questions -> Questioninfo]
        /\ deleted \in SUBSET Questions
    BY ReadClean DEF QuestionsInv, TypeOK
  <2>2. Write(q, [s \in DOMAIN Unset |-> IF Unset[s] = Unset[s] THEN r[s] ELSE Unset[s]])
    BY <1>d DEF deleteQuestion, ChangeQuestion
  <2>3. [s \in DOMAIN Unset |-> IF Unset[s] = Unset[s] THEN r[s] ELSE Unset[s]] = r
    <3>1. DOMAIN r = DOMAIN Unset
      BY <2>1, Settings DEF Questioninfo
    <3>2. r = [s \in DOMAIN r |-> r[s]]
      BY <2>1 DEF Questioninfo
    <3> QED BY <3>1, <3>2
  <2>4. given' = [given EXCEPT ![q] = r]
    BY <1>d, <2>1 DEF deleteQuestion
  <2>5. Parsed(r) = r
    BY <2>1, CleanRead
  <2>6. deleted' = deleted \cup {q}
    BY <1>d DEF deleteQuestion
  <2>7. Puts(q, r, r)
    BY <2>1, <2>2, <2>3, <2>4, <2>5, <2>6 DEF Puts
  <2> QED BY <2>7
<1>t. ASSUME Tear(q) PROVE \E f, v : Puts(q, f, v)
  <2>1. Puts(q, Empty, Unset)
    BY <1>t, UnsetClean DEF Tear, Puts, Clean, QuestionsInv, TypeOK
  <2> QED BY <2>1
<1> QED BY <1>a, <1>c, <1>r, <1>h, <1>p, <1>m, <1>d, <1>t DEF Edit

\* What a command leaves, and how its question is read then.
LEMMA PutsLeaves ==
    ASSUME QuestionsInv, NEW q \in Questions, NEW f, NEW v, Puts(q, f, v)
    PROVE  /\ QuestionsInv'
           /\ file'[q] = f
           /\ ReadQuestion(q)' = v
           /\ \A p \in Questions \ {q} : file'[p] = file[p] /\ ReadQuestion(p)' = ReadQuestion(p)
           /\ UNCHANGED access
<1>1. /\ file \in [Questions -> Questioninfo \cup {NoFile, Empty}]
      /\ given \in [Questions -> Questioninfo]
      /\ f \in Questioninfo \cup {Empty}
      /\ v \in Questioninfo
      /\ file' = [file EXCEPT ![q] = f]
      /\ given' = [given EXCEPT ![q] = v]
  BY DEF QuestionsInv, TypeOK, Puts, Write
<1>2. /\ file' \in [Questions -> Questioninfo \cup {NoFile, Empty}] /\ file'[q] = f
      /\ \A p \in Questions \ {q} : file'[p] = file[p]
      /\ given' \in [Questions -> Questioninfo] /\ given'[q] = v
      /\ \A p \in Questions \ {q} : given'[p] = given[p]
  BY <1>1
<1>3. ReadQuestion(q)' = v
  <2>1. f # NoFile
    BY <1>1, FileAssumption
  <2>2. f \in Questioninfo => f # Empty
    BY FileAssumption
  <2> QED BY <1>2, <2>1, <2>2 DEF Puts, ReadQuestion, Known
<1>4. \A p \in Questions \ {q} : ReadQuestion(p)' = ReadQuestion(p)
  BY <1>2 DEF ReadQuestion, Known
<1>5. edits' \in 0..MaxEdits
  <2>1. edits < MaxEdits /\ edits' = edits + 1 /\ edits \in 0..MaxEdits /\ MaxEdits \in Nat
    BY QuestionAssumption DEF Puts, Write, QuestionsInv, TypeOK
  <2> QED BY <2>1
<1>6. UNCHANGED access /\ deleted' \in SUBSET Questions
  BY DEF Puts, Write
<1>7. TypeOK'
  BY <1>2, <1>5, <1>6 DEF QuestionsInv, TypeOK, access
<1>8. \A p \in Questions : ReadQuestion(p)' = given'[p]
  BY <1>2, <1>3, <1>4 DEF QuestionsInv
<1> QED BY <1>2, <1>3, <1>4, <1>6, <1>7, <1>8 DEF QuestionsInv

---------------------------------------------------------------------------
\* Where an answer leads.

IsFirst(i, S) == i \in S /\ \A j \in S : i <= j

LeadOf(lines, a) ==
    IF Hits(lines, a) = {} THEN inv
    ELSE lines[2 * CHOOSE i \in Hits(lines, a) : \A j \in Hits(lines, a) : i <= j]

LEMMA ChannelIsLead ==
    \A q, a : MultipleAnswerChannel(q, a) = LeadOf(ReadQuestion(q).multipleanswer, a)
BY DEF MultipleAnswerChannel, LeadOf

LEMMA HitsAre ==
    ASSUME NEW lines \in Seq(Lines), NEW a
    PROVE  /\ Hits(lines, a) \subseteq Nat
           /\ \A i \in Hits(lines, a) : 2 * i - 1 \in 1..Len(lines) /\ 2 * i \in 1..Len(lines)
<1> DEFINE n == Len(lines) \div 2
<1>1. Len(lines) \in Nat /\ n \in Nat /\ 2 * n <= Len(lines)
  BY Halves
<1>2. \A i \in Hits(lines, a) : i \in 1..n
  BY DEF Hits
<1> HIDE DEF n
<1> QED BY <1>1, <1>2

\* There is a first entry for an answer that has one, and it decides.
LEMMA FirstHit ==
    ASSUME NEW lines \in Seq(Lines), NEW a, Hits(lines, a) # {}
    PROVE  \E i : IsFirst(i, Hits(lines, a)) /\ LeadOf(lines, a) = lines[2 * i]
<1>1. Hits(lines, a) \subseteq Nat
  BY HitsAre
<1>2. PICK n \in Hits(lines, a) : \A k \in Hits(lines, a) : ~ (<< k, n >> \in OpToRel(<, Nat))
  BY <1>1, NatLessThanWellFounded, WFMin
<1>3. \A k \in Hits(lines, a) : ~ (k < n)
  BY <1>1, <1>2 DEF OpToRel
<1>4. \A k \in Hits(lines, a) : n <= k
  BY <1>1, <1>3
<1> DEFINE c == CHOOSE i \in Hits(lines, a) : \A j \in Hits(lines, a) : i <= j
<1>5. IsFirst(c, Hits(lines, a))
  BY <1>4 DEF IsFirst
<1>6. LeadOf(lines, a) = lines[2 * c]
  BY DEF LeadOf
<1> QED BY <1>5, <1>6

\* Lines put after lines that pair up do not change where an answer leads that led
\* somewhere.
LEMMA LeadAppended ==
    ASSUME NEW s, Paired(s), NEW z \in Seq(Lines), NEW a, LeadOf(s, a) # inv
    PROVE  LeadOf(s \o z, a) = LeadOf(s, a)
<1> DEFINE t == s \o z
           k == Len(s) \div 2
           h == Len(t) \div 2
<1>1. /\ s \in Seq(Lines) /\ t \in Seq(Lines) /\ Len(s) \in Nat /\ Len(z) \in Nat
      /\ Len(t) = Len(s) + Len(z)
      /\ \A i \in 1..Len(s) : t[i] = s[i]
  <2>1. s \in Seq(Lines)
    BY DEF Paired
  <2> QED BY <2>1, ConcatProperties
<1>2. k \in Nat /\ h \in Nat /\ Len(s) = 2 * k /\ k <= h
  <2>1. k \in Nat /\ Len(s) = 2 * k /\ Len(z) \div 2 \in Nat
    BY <1>1, Halves DEF Paired
  <2>2. (2 * k + Len(z)) \div 2 = k + (Len(z) \div 2)
    BY <1>1, <2>1, Halves
  <2> HIDE DEF k, t
  <2>3. h = k + (Len(z) \div 2)
    BY <1>1, <2>1, <2>2
  <2> QED BY <2>1, <2>3
<1>3. Hits(s, a) = {i \in 1..k : s[2 * i - 1] = a} /\ Hits(t, a) = {i \in 1..h : t[2 * i - 1] = a}
  BY DEF Hits
<1>4. Hits(s, a) # {}
  BY DEF LeadOf
<1>5. LeadOf(s \o z, a) = LeadOf(t, a)
  OBVIOUS
<1> HIDE DEF k, h, t
<1>6. \A i \in 1..k : t[2 * i - 1] = s[2 * i - 1] /\ t[2 * i] = s[2 * i]
  <2>1. \A i \in 1..k : 2 * i - 1 \in 1..Len(s) /\ 2 * i \in 1..Len(s)
    BY <1>2
  <2> QED BY <1>1, <2>1
<1>7. PICK i : IsFirst(i, Hits(s, a)) /\ LeadOf(s, a) = s[2 * i]
  BY <1>1, <1>4, FirstHit
<1>8. i \in 1..k /\ i \in Hits(t, a)
  BY <1>2, <1>3, <1>6, <1>7 DEF IsFirst
<1>9. PICK j : IsFirst(j, Hits(t, a)) /\ LeadOf(t, a) = t[2 * j]
  BY <1>1, <1>8, FirstHit
<1>10. j <= i /\ j \in 1..h
  BY <1>3, <1>8, <1>9 DEF IsFirst
<1>11. j \in 1..k
  BY <1>2, <1>8, <1>10
<1>12. j \in Hits(s, a)
  BY <1>3, <1>6, <1>9, <1>11 DEF IsFirst
<1>13. i <= j
  BY <1>7, <1>12 DEF IsFirst
<1>14. i = j
  BY <1>8, <1>10, <1>11, <1>13
<1> QED BY <1>5, <1>6, <1>7, <1>8, <1>9, <1>14

\* An answer earns the rewards of what some line names.
LEMMA TargetType ==
    ASSUME TypeOK, NEW q \in Questions, NEW a
    PROVE  Target(q, a) \in Lines
<1> DEFINE s == ReadQuestion(q).multipleanswer
<1>1. s \in Seq(Lines)
  BY ReadClean DEF Clean, Paired
<1>2. MultipleAnswerChannel(q, a) = LeadOf(s, a)
  BY ChannelIsLead
<1> HIDE DEF s
<1>3. LeadOf(s, a) \in Lines
  <2>1. CASE Hits(s, a) = {}
    BY <2>1, QuestionAssumption DEF LeadOf
  <2>2. CASE Hits(s, a) # {}
    <3>1. PICK i : IsFirst(i, Hits(s, a)) /\ LeadOf(s, a) = s[2 * i]
      BY <1>1, <2>2, FirstHit
    <3>2. 2 * i \in 1..Len(s)
      BY <1>1, <3>1, HitsAre DEF IsFirst
    <3> QED BY <1>1, <3>1, <3>2
  <2> QED BY <2>1, <2>2
<1>4. Target(q, a) \in {q, inv, MultipleAnswerChannel(q, a)}
  BY DEF Target
<1> QED BY <1>2, <1>3, <1>4, QuestionAssumption

---------------------------------------------------------------------------
\* The calls that give rewards.

LEMMA PairIsConcat ==
    ASSUME NEW S, NEW e \in S, NEW f \in S
    PROVE  << e >> \o << f >> = << e, f >>
<1>1. << e >> \in Seq(S) /\ << f >> \in Seq(S) /\ << e, f >> \in Seq(S)
  OBVIOUS
<1>2. << e >> \o << f >> \in Seq(S) /\ Len(<< e >> \o << f >>) = 2
  BY <1>1, ConcatProperties
<1>3. (<< e >> \o << f >>)[1] = e /\ (<< e >> \o << f >>)[2] = f
  BY <1>1, ConcatProperties
<1>4. Len(<< e, f >>) = 2 /\ \A i \in 1..2 : (<< e >> \o << f >>)[i] = << e, f >>[i]
  BY <1>3
<1> QED BY <1>1, <1>2, <1>4, SeqEqual

LEMMA GivenPrefix ==
    ASSUME NEW S, NEW s \in Seq(S), NEW n \in 0..Len(s), NEW kind
    PROVE  Given(SubSeq(s, 1, n), kind) = {s[i][kind] : i \in {j \in 1..n : kind \in DOMAIN s[j]}}
<1> DEFINE c == SubSeq(s, 1, n)
<1>1. DOMAIN c = 1..n /\ \A i \in 1..n : c[i] = s[i]
  <2>1. Len(s) \in Nat
    OBVIOUS
  <2>2. c \in Seq(S) /\ Len(c) = n /\ \A i \in 1..n : c[i] = s[i]
    BY <2>1, SubSeqProperties
  <2> QED BY <2>2
<1> HIDE DEF c
<1> QED BY <1>1 DEF Given, c

\* A prefix of the calls gives nothing but the channel and the role of the question,
\* and not the role without the channel, if there is one.
LEMMA RewardGives ==
    ASSUME NEW t, NEW n \in 0..Len(Rewards(t))
    PROVE  LET c == SubSeq(Rewards(t), 1, n)
           IN  /\ Given(c, "channel") \subseteq {ChannelOf(t)} \ {inv}
               /\ Given(c, "role") \subseteq {RoleOf(t)} \ {inv}
               /\ Given(c, "role") # {} => ChannelOf(t) \in Given(c, "channel") \cup {inv}
<1> DEFINE ch == ChannelOf(t)
           ro == RoleOf(t)
           C == [channel |-> ch]
           R == [role |-> ro]
           s == Rewards(t)
           G(kind) == {s[i][kind] : i \in {j \in 1..n : kind \in DOMAIN s[j]}}
<1>1. /\ DOMAIN C = {"channel"} /\ C["channel"] = ch
      /\ DOMAIN R = {"role"} /\ R["role"] = ro
      /\ "role" # "channel"
  OBVIOUS
<1>2. Rewards(t) = (IF ch = inv THEN << >> ELSE << C >>)
                   \o (IF ro = inv THEN << >> ELSE << R >>)
  BY DEF Rewards
<1> HIDE DEF ch, ro, C, R
<1>3. << C >> \in Seq({C, R}) /\ << R >> \in Seq({C, R}) /\ << C, R >> \in Seq({C, R})
  OBVIOUS
<1>4. << C >> \o << >> = << C >> /\ << >> \o << R >> = << R >> /\ << >> \o << >> = << >>
  BY <1>3, ConcatEmptySeq
<1>5. << C >> \o << R >> = << C, R >>
  <2> C \in {C, R} /\ R \in {C, R}
    OBVIOUS
  <2> QED BY PairIsConcat
\* One call, or the channel and then the role.
<1> DEFINE Call(i) == \/ s[i] = C /\ ch # inv
                      \/ s[i] = R /\ ro # inv /\ (ch = inv \/ s[1] = C)
<1>6. s \in Seq({C, R}) /\ \A i \in 1..Len(s) : Call(i)
  <2>1. CASE ch = inv /\ ro = inv
    <3>1. s = << >>
      BY <1>2, <1>4, <2>1
    <3>2. s \in Seq({C, R}) /\ 1..Len(s) = {}
      BY <3>1
    <3> QED BY <3>2
  <2>2. CASE ch # inv /\ ro = inv
    <3>1. s = << C >>
      BY <1>2, <1>4, <2>2
    <3>2. Len(s) = 1 /\ s[1] = C
      BY <3>1
    <3> QED BY <1>3, <2>2, <3>1, <3>2
  <2>3. CASE ch = inv /\ ro # inv
    <3>1. s = << R >>
      BY <1>2, <1>4, <2>3
    <3>2. Len(s) = 1 /\ s[1] = R
      BY <3>1
    <3> QED BY <1>3, <2>3, <3>1, <3>2
  <2>4. CASE ch # inv /\ ro # inv
    <3>1. s = << C, R >>
      BY <1>2, <1>5, <2>4
    <3>2. Len(s) = 2 /\ s[1] = C /\ s[2] = R
      BY <3>1
    <3> QED BY <1>3, <2>4, <3>1, <3>2
  <2> QED BY <2>1, <2>2, <2>3, <2>4
<1>7. Given(SubSeq(s, 1, n), "channel") = G("channel") /\ Given(SubSeq(s, 1, n), "role") = G("role")
  BY <1>6, GivenPrefix
<1>8. Len(s) \in Nat /\ 1..n \subseteq 1..Len(s)
  BY <1>6
<1> HIDE DEF s
<1>9. ASSUME NEW i \in 1..n
      PROVE  /\ "channel" \in DOMAIN s[i] => s[i]["channel"] = ch /\ ch # inv
             /\ "role" \in DOMAIN s[i] =>
                   /\ s[i]["role"] = ro /\ ro # inv
                   /\ ch = inv \/ s[1] = C
  BY <1>1, <1>6, <1>8
<1>10. G("channel") \subseteq {ch} \ {inv} /\ G("role") \subseteq {ro} \ {inv}
  BY <1>9
<1>11. ASSUME G("role") # {} PROVE ch \in G("channel") \cup {inv}
  <2>1. PICK i \in 1..n : "role" \in DOMAIN s[i]
    BY <1>11
  <2>2. 1 \in 1..n
    BY <1>8, <2>1
  <2>3. CASE s[1] = C
    BY <1>1, <2>2, <2>3
  <2> QED BY <1>9, <2>1, <2>3
<1> QED BY <1>7, <1>10, <1>11 DEF ch, ro, s

LEMMA RewardLeaves ==
    ASSUME TypeOK, NEW m \in Solvers, NEW t, ChannelOf(t) # Kick, Reward(m, t)
    PROVE  /\ opened' \in [Solvers -> SUBSET Channels]
           /\ roles' \in [Solvers -> SUBSET Roles]
           /\ \A k \in Solvers \ {m} : roles'[k] = roles[k]
           /\ roles'[m] \ roles[m] # {} =>
                 /\ roles'[m] = roles[m] \cup {RoleOf(t)}
                 /\ ChannelOf(t) \in opened'[m] \cup {inv}
<1> DEFINE ch == ChannelOf(t)
           ro == RoleOf(t)
<1>1. ch \in Channels \cup {inv, Kick} /\ ro \in Roles \cup {inv}
  <2>1. /\ ReadQuestion(t).channelid \in Texts(Channels \cup {inv, Kick})
        /\ ReadQuestion(t).roleid \in Texts(Roles \cup {inv})
    BY ReadClean DEF Questioninfo
  <2>2. \A S : \A x \in Texts(S) : Head(x) \in S
    BY DEF Texts
  <2> QED BY <2>1, <2>2 DEF ChannelOf, RoleOf
<1>2. PICK n \in 0..Len(Rewards(t)) :
        LET calls == SubSeq(Rewards(t), 1, n)
        IN  /\ opened' = [opened EXCEPT ![m] = @ \cup Given(calls, "channel")]
            /\ roles' = [roles EXCEPT ![m] = @ \cup Given(calls, "role")]
  BY DEF Reward
<1> DEFINE c == SubSeq(Rewards(t), 1, n)
<1>3. /\ Given(c, "channel") \subseteq {ch} \ {inv}
      /\ Given(c, "role") \subseteq {ro} \ {inv}
      /\ Given(c, "role") # {} => ch \in Given(c, "channel") \cup {inv}
  BY RewardGives
<1> HIDE DEF c
<1>4. /\ opened' = [opened EXCEPT ![m] = opened[m] \cup Given(c, "channel")]
      /\ roles' = [roles EXCEPT ![m] = roles[m] \cup Given(c, "role")]
  BY <1>2 DEF c
<1>5. ch # Kick
  OBVIOUS
<1> HIDE DEF ch, ro
<1>6. Given(c, "channel") \subseteq Channels /\ Given(c, "role") \subseteq Roles
  BY <1>1, <1>3, <1>5
<1>7. /\ opened' \in [Solvers -> SUBSET Channels]
      /\ roles' \in [Solvers -> SUBSET Roles]
      /\ \A k \in Solvers \ {m} : roles'[k] = roles[k]
      /\ roles'[m] = roles[m] \cup Given(c, "role")
      /\ opened'[m] = opened[m] \cup Given(c, "channel")
  BY <1>4, <1>6 DEF TypeOK
<1>8. ASSUME roles'[m] \ roles[m] # {}
      PROVE  /\ roles'[m] = roles[m] \cup {ro}
             /\ ch \in opened'[m] \cup {inv}
  <2>1. Given(c, "role") # {}
    BY <1>7, <1>8
  <2>2. Given(c, "role") = {ro}
    BY <1>3, <2>1
  <2> QED BY <1>3, <1>7, <2>1, <2>2
<1> QED BY <1>7, <1>8 DEF ch, ro

---------------------------------------------------------------------------
\* Steps.

LEMMA InvInit == Init => QuestionsInv
<1> SUFFICES ASSUME Init PROVE QuestionsInv
  OBVIOUS
<1>1. PICK a \in Words, r \in Roles \cup {inv} :
        file = [q \in Questions |-> IF q \in Traps THEN Trap(a, r) ELSE NoFile]
  BY DEF Init
<1> DEFINE f == Trap(a, r)
<1>2. f = [answer |-> << a >>, channelid |-> << Kick >>, roleid |-> << r >>,
           hint |-> << inv >>, multipleanswer |-> << >>, permission |-> << inv >>]
  <2>1. \A s \in DOMAIN Unset : f[s] = IF s = "answer" THEN << a >> ELSE
                                       IF s = "channelid" THEN << Kick >> ELSE
                                       IF s = "roleid" THEN << r >> ELSE Unset[s]
    BY DEF Trap
  <2>2. f = [s \in DOMAIN Unset |-> f[s]]
    BY DEF Trap
  <2> HIDE DEF f
  <2> QED BY <2>1, <2>2, Settings DEF Unset
<1> HIDE DEF f
<1>3. a \in Lines /\ Paired(<< >>)
  BY QuestionAssumption, UnsetClean DEF Clean, Unset
<1>4. Clean(f)
  BY <1>2, <1>3 DEF Clean, Questioninfo, Texts, Paired
<1>5. f \in Questioninfo /\ Parsed(f) = f /\ Unset \in Questioninfo
  BY <1>4, CleanRead, UnsetClean DEF Clean
<1>6. /\ file \in [Questions -> Questioninfo \cup {NoFile, Empty}]
      /\ given \in [Questions -> Questioninfo]
  BY <1>1, <1>5 DEF Init, f
<1>7. TypeOK
  BY <1>6, QuestionAssumption DEF Init, TypeOK
<1>8. ASSUME NEW q \in Questions PROVE ReadQuestion(q) = given[q]
  <2>1. CASE q \in Traps
    <3>1. file[q] = f /\ given[q] = f
      BY <1>1, <2>1 DEF Init, f
    <3>2. f # NoFile /\ f # Empty
      BY <1>5, FileAssumption
    <3> QED BY <1>5, <3>1, <3>2 DEF ReadQuestion, Known
  <2>2. CASE q \notin Traps
    BY <1>1, <2>2 DEF Init, ReadQuestion, Known
  <2> QED BY <2>1, <2>2
<1> QED BY <1>7, <1>8 DEF QuestionsInv

LEMMA AnswerStep ==
    ASSUME QuestionsInv, NEW m \in Solvers, NEW q \in Questions, NEW a, Answer(m, q, a)
    PROVE  /\ QuestionsInv'
           /\ file' = file
           /\ \A k \in Solvers : roles'[k] \ roles[k] # {} =>
                 \E t \in Lines :
                    /\ roles'[k] = roles[k] \cup {RoleOf(t)}
                    /\ ChannelOf(t) \in opened'[k] \cup {inv}
<1> DEFINE t == Target(q, a)
<1>1. t \in Lines /\ m \in present /\ TypeOK /\ UNCHANGED <<file, edits, given, deleted>>
  BY TargetType DEF Answer, QuestionsInv
<1> HIDE DEF t
<1>2. \A p \in Questions : ReadQuestion(p)' = given'[p]
  <2>1. \A p \in Questions : ReadQuestion(p)' = ReadQuestion(p)
    BY <1>1 DEF ReadQuestion, Known
  <2> QED BY <1>1, <2>1 DEF QuestionsInv
<1>3. CASE ChannelOf(t) = Kick
  <2>1. KickMember(m)
    BY <1>3 DEF Answer, t
  <2>2. /\ \A k \in Solvers : roles'[k] \in {roles[k], {}}
        /\ opened' = opened /\ roles' \in [Solvers -> SUBSET Roles]
        /\ present' \in SUBSET Solvers /\ \A k \in Solvers \ present' : roles'[k] = {}
    <3>1. CASE /\ present' = present \ {m}
               /\ roles' = [roles EXCEPT ![m] = {}]
               /\ UNCHANGED opened
      BY <1>1, <3>1 DEF TypeOK
    <3>2. CASE UNCHANGED access
      BY <1>1, <3>2 DEF TypeOK, access
    <3> QED BY <2>1, <3>1, <3>2 DEF KickMember
  <2>3. TypeOK'
    BY <1>1, <2>2 DEF TypeOK
  <2>4. \A k \in Solvers : roles'[k] \ roles[k] = {}
    BY <2>2
  <2> QED BY <1>1, <1>2, <2>3, <2>4 DEF QuestionsInv
<1>4. CASE ChannelOf(t) # Kick
  <2>1. Reward(m, t)
    BY <1>4 DEF Answer, t
  <2>2. /\ opened' \in [Solvers -> SUBSET Channels]
        /\ roles' \in [Solvers -> SUBSET Roles]
        /\ \A k \in Solvers \ {m} : roles'[k] = roles[k]
        /\ roles'[m] \ roles[m] # {} =>
              /\ roles'[m] = roles[m] \cup {RoleOf(t)}
              /\ ChannelOf(t) \in opened'[m] \cup {inv}
    BY <1>1, <1>4, <2>1, RewardLeaves
  <2>3. present' = present
    BY <2>1 DEF Reward
  <2>4. TypeOK'
    BY <1>1, <2>2, <2>3 DEF TypeOK
  <2>5. \A k \in Solvers \ {m} : roles'[k] \ roles[k] = {}
    BY <2>2
  <2> QED BY <1>1, <1>2, <2>2, <2>4, <2>5 DEF QuestionsInv
<1> QED BY <1>3, <1>4

LEMMA InvStep == QuestionsInv /\ [Next]_vars => QuestionsInv'
<1> SUFFICES ASSUME QuestionsInv, [Next]_vars PROVE QuestionsInv'
  OBVIOUS
<1>1. CASE UNCHANGED vars
  BY <1>1 DEF vars, QuestionsInv, TypeOK, ReadQuestion, Known
<1>2. ASSUME NEW m \in Solvers, Rejoin(m) PROVE QuestionsInv'
  BY <1>2 DEF Rejoin, QuestionsInv, TypeOK, ReadQuestion, Known
<1>3. ASSUME NEW m \in Solvers, NEW q \in Questions, NEW a \in Words, AnswerInVain(m, q, a)
      PROVE  QuestionsInv'
  BY <1>1, <1>3 DEF AnswerInVain
<1>4. ASSUME NEW q \in Questions, Edit(q) PROVE QuestionsInv'
  BY <1>4, EditPuts, PutsLeaves
<1> QED BY <1>1, <1>2, <1>3, <1>4, AnswerStep DEF Next

LEMMA AlwaysInv == Spec => []QuestionsInv
BY InvInit, InvStep, PTL DEF Spec

\* Who answers does not write files: a step that changes one is a command.
LEMMA FilesByEdit ==
    ASSUME QuestionsInv, [Next]_vars, file' # file
    PROVE  \E q \in Questions : Edit(q)
BY AnswerStep DEF Next, vars, Rejoin, AnswerInVain

\* The files keep their form, and what members have its type.
THEOREM TypeCorrect == Spec => []TypeOK
BY AlwaysInv, PTL DEF QuestionsInv

\* What is read of a question is what the owner has given, however often it was
\* printed and read since.
THEOREM GivenIsRead == Spec => []ReadsAsGiven
<1>1. QuestionsInv => ReadsAsGiven
  BY DEF QuestionsInv, ReadsAsGiven
<1> QED BY <1>1, AlwaysInv, PTL

\* The first !!setMultipleAnswer for an answer settles where it leads.
THEOREM FirstLeadStays == Spec => LeadsAreFixed
<1> DEFINE Fixed == \A q \in Questions \ deleted', a \in Words :
                       MultipleAnswerChannel(q, a) # inv /\ file'[q] # Empty
                          => MultipleAnswerChannel(q, a)' = MultipleAnswerChannel(q, a)
<1>1. ASSUME QuestionsInv, [Next]_vars, file' # file, NEW q \in Questions, NEW a,
             MultipleAnswerChannel(q, a) # inv, file'[q] # Empty
      PROVE  MultipleAnswerChannel(q, a)' = MultipleAnswerChannel(q, a)
  <2>1. PICK e \in Questions : Edit(e)
    BY <1>1, FilesByEdit
  <2>2. \E f, v : Puts(e, f, v)
    BY <1>1, <2>1, EditPuts
  <2>3. PICK f : \E v : Puts(e, f, v)
    BY <2>2
  <2>4. PICK v : Puts(e, f, v)
    BY <2>3
  <2>5. /\ file'[e] = f /\ ReadQuestion(e)' = v
        /\ \A p \in Questions \ {e} : ReadQuestion(p)' = ReadQuestion(p)
    BY <1>1, <2>4, PutsLeaves
  <2> DEFINE s == ReadQuestion(q).multipleanswer
             t == ReadQuestion(q)'.multipleanswer
  <2>6. MultipleAnswerChannel(q, a) = LeadOf(s, a) /\ Paired(s)
    BY <1>1, ChannelIsLead, ReadClean DEF QuestionsInv, Clean
  <2>7. MultipleAnswerChannel(q, a)' = LeadOf(t, a)
    BY DEF MultipleAnswerChannel, LeadOf
  <2>8. t = s \/ \E z \in Seq(Lines) : t = s \o z
    BY <1>1, <2>4, <2>5 DEF Puts
  <2> HIDE DEF s, t
  <2> QED BY <1>1, <2>6, <2>7, <2>8, LeadAppended
<1> HIDE DEF Fixed
<1>2. QuestionsInv /\ [Next]_vars => [Fixed]_file
  BY <1>1 DEF Fixed
<1> QED BY <1>2, AlwaysInv, PTL DEF Spec, LeadsAreFixed, Fixed

\* Who gets a role has the channel of the same question open.
THEOREM RoleAfterChannel == Spec => ChannelComesFirst
<1> DEFINE First == \A m \in Solvers : roles'[m] \ roles[m] # {} =>
                       \E t \in Lines :
                          /\ roles'[m] = roles[m] \cup {RoleOf(t)}
                          /\ ChannelOf(t) \in opened'[m] \cup {inv}
<1>1. ASSUME QuestionsInv, [Next]_vars, roles' # roles PROVE First
  <2>1. ASSUME NEW q \in Questions, Edit(q) PROVE roles' = roles
    BY <1>1, <2>1, EditPuts, PutsLeaves DEF access
  <2>2. \E m \in Solvers, q \in Questions, a \in Words : Answer(m, q, a)
    BY <1>1, <2>1 DEF Next, vars, Rejoin, AnswerInVain
  <2> QED BY <1>1, <2>2, AnswerStep
<1> HIDE DEF First
<1>2. QuestionsInv /\ [Next]_vars => [First]_roles
  BY <1>1
<1> QED BY <1>2, AlwaysInv, PTL DEF Spec, ChannelComesFirst, First
====
