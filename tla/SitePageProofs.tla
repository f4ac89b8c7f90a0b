--------------------------- MODULE SitePageProofs ---------------------------
(***************************************************************************)
(* Theorems about the windows of Site: what a path leads to under every    *)
(* path that the terminal can be given, and what becomes of a window that  *)
(* is opened for a token.                                                  *)
(***************************************************************************)
EXTENDS SiteProofs, SequenceTheorems, FiniteSetTheorems

TerminalPath == <<"/", "terminal", "/">>

-----------------------------------------------------------------------------
(* Paths and what they lead to.                                            *)

LEMMA PrefixIsPath ==
  ASSUME customPath \in CustomPaths
  PROVE  Prefix \in Paths
<1>1. Random \in Paths /\ TerminalPath \in Paths
  BY SiteAssumption DEF Random, TerminalPath, Paths
<1> QED BY <1>1, SiteAssumption DEF Prefix, TerminalPath

\* A path that begins where another one ends.
LEMMA PathConcat ==
  ASSUME NEW p \in Paths, NEW q \in Seq(Words)
  PROVE  /\ p \o q \in Paths
         /\ Len(p \o q) = Len(p) + Len(q)
         /\ \A i \in 1 .. Len(p) : (p \o q)[i] = p[i]
         /\ \A i \in 1 .. Len(q) : (p \o q)[Len(p) + i] = q[i]
<1>1. p \in Seq(Words) /\ p # <<>> /\ Head(p) = "/" /\ Len(p) \in Nat \ {0}
  BY DEF Paths
<1>2. /\ p \o q \in Seq(Words)
      /\ Len(p \o q) = Len(p) + Len(q)
      /\ \A i \in 1 .. Len(p) + Len(q) :
           (p \o q)[i] = IF i <= Len(p) THEN p[i] ELSE q[i - Len(p)]
  BY <1>1, ConcatProperties
<1>3. (p \o q)[1] = "/" /\ p \o q # <<>>
  BY <1>1, <1>2
<1>4. \A i \in 1 .. Len(q) : (p \o q)[Len(p) + i] = q[i]
  BY <1>1, <1>2
<1> QED BY <1>1, <1>2, <1>3, <1>4 DEF Paths

LEMMA PathAppend ==
  ASSUME NEW p \in Seq(Words), NEW a \in Words
  PROVE  /\ Append(p, a) \in Seq(Words)
         /\ Len(Append(p, a)) = Len(p) + 1
         /\ \A i \in 1 .. Len(p) : Append(p, a)[i] = p[i]
         /\ Append(p, a)[Len(p) + 1] = a
BY AppendProperties

LEMMA PathConcat2 ==
  ASSUME NEW p \in Paths, NEW a \in Words, NEW b \in Words
  PROVE  /\ p \o <<a, b>> \in Paths
         /\ Len(p \o <<a, b>>) = Len(p) + 2
         /\ \A i \in 1 .. Len(p) : (p \o <<a, b>>)[i] = p[i]
         /\ (p \o <<a, b>>)[Len(p) + 1] = a
         /\ (p \o <<a, b>>)[Len(p) + 2] = b
<1> DEFINE q == <<a, b>>
<1>1. q \in Seq(Words) /\ Len(q) = 2 /\ q[1] = a /\ q[2] = b
  OBVIOUS
<1> HIDE DEF q
<1>2. /\ p \o q \in Paths
      /\ Len(p \o q) = Len(p) + Len(q)
      /\ \A i \in 1 .. Len(p) : (p \o q)[i] = p[i]
      /\ \A i \in 1 .. Len(q) : (p \o q)[Len(p) + i] = q[i]
  BY <1>1, PathConcat
<1>3. 1 \in 1 .. Len(q) /\ 2 \in 1 .. Len(q)
  BY <1>1
<1>4. (p \o q)[Len(p) + 1] = a /\ (p \o q)[Len(p) + 2] = b
  BY <1>1, <1>2, <1>3
<1> QED BY <1>1, <1>2, <1>4 DEF q

LEMMA PathConcat3 ==
  ASSUME NEW p \in Paths, NEW a \in Words, NEW b \in Words, NEW c \in Words
  PROVE  /\ p \o <<a, b, c>> \in Paths
         /\ Len(p \o <<a, b, c>>) = Len(p) + 3
         /\ \A i \in 1 .. Len(p) : (p \o <<a, b, c>>)[i] = p[i]
         /\ (p \o <<a, b, c>>)[Len(p) + 1] = a
         /\ (p \o <<a, b, c>>)[Len(p) + 2] = b
         /\ (p \o <<a, b, c>>)[Len(p) + 3] = c
<1> DEFINE q == <<a, b, c>>
<1>1. q \in Seq(Words) /\ Len(q) = 3 /\ q[1] = a /\ q[2] = b /\ q[3] = c
  OBVIOUS
<1> HIDE DEF q
<1>2. /\ p \o q \in Paths
      /\ Len(p \o q) = Len(p) + Len(q)
      /\ \A i \in 1 .. Len(p) : (p \o q)[i] = p[i]
      /\ \A i \in 1 .. Len(q) : (p \o q)[Len(p) + i] = q[i]
  BY <1>1, PathConcat
<1>3. 1 \in 1 .. Len(q) /\ 2 \in 1 .. Len(q) /\ 3 \in 1 .. Len(q)
  BY <1>1
<1>4. /\ (p \o q)[Len(p) + 1] = a /\ (p \o q)[Len(p) + 2] = b
      /\ (p \o q)[Len(p) + 3] = c
  BY <1>1, <1>2, <1>3
<1> QED BY <1>1, <1>2, <1>4 DEF q

\* On a page whose path ends in a slash a link goes below it.
LEMMA ResolveBelow ==
  ASSUME NEW base \in Paths, EndsInSlash(base), NEW link \in Seq(Words)
  PROVE  Resolve(base, link) = base \o link
<1> DEFINE S == {k \in 1 .. Len(base) : base[k] = "/"}
<1>1. base \in Seq(Words) /\ base # <<>> /\ Len(base) \in Nat \ {0}
  BY DEF Paths
<1>2. Len(base) \in S /\ \A k \in S : Len(base) >= k
  BY <1>1 DEF EndsInSlash, Last
<1>3. Max(S) = Len(base)
  BY <1>1, <1>2 DEF Max
<1>4. SubSeq(base, 1, Len(base)) = base
  BY <1>1, SubSeqFull
<1> QED BY <1>3, <1>4 DEF Resolve

\* Where the patterns of siteMux can be.
LEMMA PatternForms ==
  ASSUME NEW q \in Patterns
  PROVE  \/ q = Prefix
         \/ q \in {Prefix \o <<"js", "/">>, Prefix \o <<"css", "/">>}
         \/ q \in {Prefix \o <<"favicon.png">>, Prefix \o <<"auth_token.js">>,
                   Prefix \o <<"config.js">>}
         \/ q \in {<<"/", "api", "/", "kube-config">>,
                   <<"/", "api", "/", "kube-token">>}
         \/ customPath = <<>> /\ q = <<"/">>
BY DEF Patterns, Routes

\* A pattern answers at its own path.
LEMMA AnswersAt ==
  ASSUME NEW p, NEW a, <<p, a>> \in Routes, a # "static"
  PROVE  a \in Answers(p)
<1>1. p \in Patterns
  BY DEF Patterns
<1>2. Matches(p) = {p}
  BY <1>1 DEF Matches
<1> QED BY <1>2 DEF Answers

\* What a site answers is the name of a handler or of a file below the prefix.
LEMMA AnswerForms ==
  ASSUME NEW p, NEW a \in Answers(p)
  PROVE  \/ \E f \in Assets : Prefix \o f = p /\ a = Last(f)
         \/ \E r \in Routes : r[1] \in Matches(p) /\ r[2] # "static" /\ a = r[2]
BY DEF Answers, Static

\* The lengths and ends of the patterns.
LEMMA PatternEnds ==
  ASSUME Prefix \in Paths, NEW q \in Patterns
  PROVE  /\ q \in Paths
         /\ \/ Len(q) <= Len(Prefix) + 1
            \/ Len(q) = Len(Prefix) + 2 /\ Last(q) = "/"
            \/ Len(q) = 4 /\ Last(q) \in {"kube-config", "kube-token"}
         /\ Len(q) >= Len(Prefix) \/ Len(q) \in {1, 4}
<1>1. Len(Prefix) \in Nat \ {0}
  BY DEF Paths
<1>2. CASE q = Prefix
  BY <1>1, <1>2
<1>3. ASSUME NEW f \in {"js", "css"}, q = Prefix \o <<f, "/">>
      PROVE  q \in Paths /\ Len(q) = Len(Prefix) + 2 /\ Last(q) = "/"
  <2>1. f \in Words /\ "/" \in Words
    BY SiteAssumption
  <2>2. /\ Prefix \o <<f, "/">> \in Paths
        /\ Len(Prefix \o <<f, "/">>) = Len(Prefix) + 2
        /\ (Prefix \o <<f, "/">>)[Len(Prefix) + 2] = "/"
    BY <2>1, PathConcat2
  <2> QED BY <1>3, <2>2 DEF Last
<1>4. ASSUME NEW f \in {"favicon.png", "auth_token.js", "config.js"},
             q = Prefix \o <<f>>
      PROVE  q \in Paths /\ Len(q) = Len(Prefix) + 1
  <2>1. <<f>> \in Seq(Words) /\ Len(<<f>>) = 1
    BY SiteAssumption
  <2> QED BY <1>4, <2>1, PathConcat
<1>5. ASSUME NEW f \in {"kube-config", "kube-token"}, q = <<"/", "api", "/", f>>
      PROVE  q \in Paths /\ Len(q) = 4 /\ Last(q) = f
  <2>1. q \in Seq(Words) /\ Len(q) = 4
    BY <1>5, SiteAssumption
  <2> QED BY <1>5, <2>1 DEF Paths, Last
<1>6. CASE q = <<"/">>
  <2>1. q \in Seq(Words) /\ Len(q) = 1
    BY <1>6, SiteAssumption
  <2> QED BY <1>1, <1>6, <2>1 DEF Paths
<1> QED BY <1>2, <1>3, <1>4, <1>5, <1>6, PatternForms

\* Below its own path a terminal finds each of its scripts.
LEMMA TerminalScripts ==
  ASSUME Prefix \in Paths,
         NEW link \in {<<"auth_token.js">>, <<"config.js">>,
                       <<"js", "/", "gotty-bundle.js">>}
  PROVE  Last(link) \in Answers(Prefix \o link)
<1>1. ASSUME NEW f \in {"auth_token.js", "config.js"}, link = <<f>>
      PROVE  Last(link) \in Answers(Prefix \o link)
  <2>1. Last(link) = f /\ f # "static"
    BY <1>1 DEF Last
  <2>2. <<Prefix \o link, f>> \in Routes
    BY <1>1 DEF Routes
  <2> QED BY <2>1, <2>2, AnswersAt
<1>2. CASE link = <<"js", "/", "gotty-bundle.js">>
  <2> DEFINE p == Prefix \o link
             base == Prefix \o <<"js", "/">>
             prefixes == {q \in Patterns : EndsInSlash(q) /\ IsPrefix(q, p)}
  <2>1. Len(Prefix) \in Nat \ {0}
    BY DEF Paths
  <2>2. {"js", "/", "gotty-bundle.js"} \subseteq Words
    BY SiteAssumption DEF Bundles
  <2>3. /\ p \in Paths /\ Len(p) = Len(Prefix) + 3
        /\ \A i \in 1 .. Len(Prefix) : p[i] = Prefix[i]
        /\ p[Len(Prefix) + 1] = "js" /\ p[Len(Prefix) + 2] = "/"
        /\ p[Len(Prefix) + 3] = "gotty-bundle.js"
    BY <1>2, <2>2, PathConcat3
  <2>4. /\ base \in Paths /\ Len(base) = Len(Prefix) + 2
        /\ \A i \in 1 .. Len(Prefix) : base[i] = Prefix[i]
        /\ base[Len(Prefix) + 1] = "js" /\ base[Len(Prefix) + 2] = "/"
    BY <2>2, PathConcat2
  <2>5. <<base, "static">> \in Routes
    BY DEF Routes
  <2>6. "gotty-bundle.js" \in Static(p)
    <3>1. link \in Assets /\ Last(link) = "gotty-bundle.js"
      BY <1>2 DEF Assets, Bundles, Last
    <3> QED BY <3>1 DEF Static
  <2> HIDE DEF p, base
  <2>7. Last(p) = "gotty-bundle.js"
    BY <2>1, <2>3 DEF Last
  <2>8. p \notin Patterns
    BY <2>1, <2>3, <2>7, PatternEnds
  <2>9. \A i \in 1 .. Len(base) : base[i] = p[i]
    <3> TAKE i \in 1 .. Len(base)
    <3>1. CASE i \in 1 .. Len(Prefix)
      BY <3>1, <2>3, <2>4
    <3>2. i \in 1 .. Len(Prefix) \/ i = Len(Prefix) + 1 \/ i = Len(Prefix) + 2
      BY <2>1, <2>4
    <3> QED BY <3>1, <3>2, <2>3, <2>4
  <2>10. base \in prefixes
    <3>1. base \in Patterns
      BY <2>5 DEF Patterns
    <3>2. EndsInSlash(base)
      BY <2>1, <2>4 DEF EndsInSlash, Last
    <3>3. IsPrefix(base, p)
      BY <2>1, <2>3, <2>4, <2>9 DEF IsPrefix
    <3> QED BY <3>1, <3>2, <3>3
  <2>11. \A q \in prefixes : Len(q) <= Len(base)
    BY <2>1, <2>4, PatternEnds DEF EndsInSlash
  <2>12. base \in Matches(p)
    BY <2>8, <2>10, <2>11 DEF Matches
  <2>13. \E r \in {s \in Routes : s[1] \in Matches(p)} : r[2] = "static"
    BY <2>12, <2>5
  <2>14. "gotty-bundle.js" \in Answers(p)
    BY <2>6, <2>13 DEF Answers
  <2>15. Last(link) = "gotty-bundle.js"
    BY <1>2 DEF Last
  <2> QED BY <2>14, <2>15 DEF p
<1> QED BY <1>1, <1>2

\* Files are not pages.
LEMMA FileNames ==
  ASSUME NEW f \in Assets
  PROVE  /\ f \in Seq(Words)
         /\ Last(f) \notin {"index.html", "terminal.html", "other"}
<1>1. CASE f = <<"favicon.png">>
  <2>1. f \in Seq(Words) /\ Last(f) = "favicon.png"
    BY <1>1, SiteAssumption DEF Last
  <2> QED BY <2>1
<1>2. ASSUME NEW d \in {"css", "js"}, NEW g \in Styles \cup Bundles, f = <<d, "/", g>>
      PROVE  f \in Seq(Words) /\ Last(f) = g
  <2>1. {d, "/", g} \subseteq Words
    BY SiteAssumption
  <2>2. f \in Seq(Words) /\ Len(f) = 3 /\ f[3] = g
    BY <1>2, <2>1
  <2> QED BY <2>2 DEF Last
<1>3. \/ f = <<"favicon.png">>
      \/ \E d \in {"css", "js"}, g \in Styles \cup Bundles : f = <<d, "/", g>>
  BY DEF Assets
<1>4. \A g \in Styles \cup Bundles : g \notin {"index.html", "terminal.html", "other"}
  BY DEF Styles, Bundles
<1>5. f = <<"favicon.png">> => Last(f) = "favicon.png"
  BY DEF Last
<1> QED BY <1>1, <1>2, <1>3, <1>4, <1>5

\* Without --random-url and TERMINAL_PATH there is an index page, and with
\* TERMINAL_PATH there is none.
LEMMA IndexPage ==
  ASSUME NEW p, "index.html" \in Answers(p)
  PROVE  customPath = <<>>
<1>1. \E r \in Routes : r[2] = "index.html"
  BY AnswerForms, FileNames
<1> QED BY <1>1 DEF Routes

\* The index page at / finds its scripts only if the terminal is at its usual
\* path.
LEMMA IndexScripts ==
  ASSUME customPath = <<>>, customPath \in CustomPaths,
         "index-lib.js" \in Answers(<<"/", "terminal", "/", "js", "/", "index-lib.js">>)
  PROVE  Prefix = TerminalPath
<1> DEFINE p == <<"/", "terminal", "/", "js", "/", "index-lib.js">>
<1>1. ~\E r \in Routes : r[2] = "index-lib.js"
  BY DEF Routes
<1>2. PICK f \in Assets : Prefix \o f = p
  BY <1>1, AnswerForms
<1>3. Prefix \in Paths /\ f \in Seq(Words)
  BY PrefixIsPath, FileNames
<1>4. p[2] = "terminal"
  OBVIOUS
<1> HIDE DEF p
<1>5. \A i \in 1 .. Len(Prefix) : (Prefix \o f)[i] = Prefix[i]
  BY <1>3, PathConcat
<1>6. CASE Prefix = Random
  <2>1. 2 \in 1 .. Len(Prefix) /\ Prefix[2] = "8bytes"
    BY <1>6 DEF Random
  <2>2. (Prefix \o f)[2] = "8bytes"
    BY <1>5, <2>1
  <2> QED BY <1>2, <1>4, <2>2
<1> QED BY <1>6 DEF Prefix, TerminalPath

\* The way of a window from the path that the index page makes to the terminal.
LEMMA TerminalRedirect ==
  ASSUME Prefix = TerminalPath
  PROVE  /\ Redirected(<<"/", "terminal">>)
         /\ Append(<<"/", "terminal">>, "/") = TerminalPath
         /\ ~Redirected(TerminalPath)
         /\ "index.html" \notin Answers(TerminalPath)
         /\ ~Given(1, "IndexFile") => "terminal.html" \in Answers(TerminalPath)
<1>1. Len(TerminalPath) = 3 /\ TerminalPath \in Paths
  <2>1. TerminalPath \in Seq(Words)
    BY SiteAssumption DEF TerminalPath
  <2> QED BY <2>1 DEF TerminalPath, Paths
<1>2. TerminalPath \in Patterns
  <2> DEFINE a == IF Given(1, "IndexFile") THEN "other" ELSE "terminal.html"
  <2>1. <<Prefix, a>> \in Routes
    BY DEF Routes
  <2> HIDE DEF a
  <2>2. Prefix \in Patterns
    BY <2>1 DEF Patterns
  <2> QED BY <2>2
<1>3. <<"/", "terminal">> \notin Patterns
  <2>1. Prefix \in Paths /\ Len(Prefix) = 3
    BY <1>1
  <2>2. ASSUME NEW q \in Patterns PROVE Len(q) # 2
    <3>1. q \in Paths /\ (Len(q) >= Len(Prefix) \/ Len(q) \in {1, 4})
      BY <2>1, PatternEnds
    <3>2. Len(q) \in Nat /\ (Len(q) >= 3 \/ Len(q) \in {1, 4})
      BY <2>1, <3>1 DEF Paths
    <3> DEFINE n == Len(q)
    <3>3. n \in Nat /\ (n >= 3 \/ n \in {1, 4})
      BY <3>2
    <3> HIDE DEF n
    <3>4. n # 2
      BY <3>3
    <3> QED BY <3>4 DEF n
  <2>3. Len(<<"/", "terminal">>) = 2
    OBVIOUS
  <2> QED BY <2>2, <2>3
<1>4. Append(<<"/", "terminal">>, "/") = TerminalPath
  <2> DEFINE p == <<"/", "terminal">>
             q == Append(p, "/")
  <2>1. p \in Seq(Words) /\ "/" \in Words /\ Len(p) = 2 /\ p[1] = "/" /\ p[2] = "terminal"
    BY SiteAssumption
  <2> HIDE DEF p
  <2>2. q \in Seq(Words) /\ Len(q) = 3 /\ q[1] = "/" /\ q[2] = "terminal" /\ q[3] = "/"
    <3>1. /\ q \in Seq(Words) /\ Len(q) = Len(p) + 1
          /\ \A i \in 1 .. Len(p) : q[i] = p[i]
          /\ q[Len(p) + 1] = "/"
      BY <2>1, PathAppend
    <3>2. 1 \in 1 .. Len(p) /\ 2 \in 1 .. Len(p) /\ Len(p) + 1 = 3
      BY <2>1
    <3> QED BY <2>1, <3>1, <3>2
  <2> HIDE DEF q
  <2>3. q = TerminalPath
    BY <2>2 DEF TerminalPath
  <2> QED BY <2>3 DEF p, q
<1>5. "index.html" \notin Answers(TerminalPath)
  <2> SUFFICES ASSUME "index.html" \in Answers(TerminalPath) PROVE FALSE
    OBVIOUS
  <2>1. PICK r \in Routes : r[1] \in Matches(TerminalPath) /\ r[2] = "index.html"
    BY AnswerForms, FileNames
  <2>2. r[1] = TerminalPath
    BY <1>2, <2>1 DEF Matches
  <2>3. r[1] = <<"/">>
    BY <2>1 DEF Routes
  <2> QED BY <2>2, <2>3 DEF TerminalPath
<1>6. ASSUME ~Given(1, "IndexFile") PROVE "terminal.html" \in Answers(TerminalPath)
  <2>1. <<TerminalPath, "terminal.html">> \in Routes
    BY <1>6 DEF Routes
  <2> QED BY <2>1, AnswersAt
<1> QED BY <1>2, <1>3, <1>4, <1>5, <1>6 DEF Redirected

-----------------------------------------------------------------------------
(* The invariant of the windows.                                           *)

\* What a window can show.
Shown ==
  [at : Paths \cup {<<>>}, token : 0 .. issued, opener : Paths \cup {<<>>},
   page : Pages, asked : 0 .. 3, whole : BOOLEAN, ws : Sockets]

\* A window on its way has asked for nothing yet, and one that has come
\* somewhere has a path.
WayOk(w) ==
  /\ win[w].page # "closed" => win[w].at \in Paths
  /\ win[w].page = "asked" => win[w].asked = 0 /\ win[w].whole /\ win[w].ws = "none"

\* A terminal page at its own path lacks nothing, but for a place.
TerminalOk(w) ==
  /\ win[w].page = "terminal.html" /\ win[w].at = Prefix
  /\ EndsInSlash(Prefix) /\ ~Hindered
  => win[w].whole /\ (win[w].ws \in {"refusing", "refused"} => NoPlace(w))

\* An index page with a script that was found is that of a terminal at its
\* usual path, and of a user with the credentials.
IndexOk(w) ==
  win[w].page = "index.html" =>
    /\ Authorized /\ customPath = <<>>
    /\ win[w].at = <<"/">> /\ win[w].asked > 0 /\ win[w].whole => Prefix = TerminalPath

\* A window of that page comes to the terminal.
OpenedOk(w) ==
  win[w].opener = <<"/">> =>
    /\ Prefix = TerminalPath /\ Authorized
    /\ win[w].page = "asked" => win[w].at \in {<<"/", "terminal">>, TerminalPath}
    /\ ~Given(1, "IndexFile") =>
         /\ win[w].page \in {"asked", "terminal.html"}
         /\ win[w].page = "terminal.html" => win[w].at = TerminalPath

\* The tokens of the windows that index pages open were handed out one by one.
TokenOk(w) ==
  win[w].opener # <<>> =>
    /\ win[w].token # 0
    /\ \A v \in Windows \ {w} : win[v].opener # <<>> => win[v].token # win[w].token

\* A window that has won the swap of --once has made its request.
WinnerOk == winner \in Windows => win[winner].ws # "none"

\* Nobody is on the site before it serves.
NobodyInv ==
  \A w \in Windows : pc # "serving" \/ win[w].page = "closed" => win[w] = Closed

PageInv ==
  /\ SiteTypeOK
  /\ NobodyInv
  /\ WinnerOk
  /\ \A w \in Windows :
       WayOk(w) /\ TerminalOk(w) /\ IndexOk(w) /\ OpenedOk(w) /\ TokenOk(w)

LEMMA WindowTypes == ASSUME SiteTypeOK PROVE win \in [Windows -> Shown]
BY DEF SiteTypeOK, Shown

\* What the site is while it serves stays as it is.
LEMMA ServedAlike ==
  ASSUME UNCHANGED <<startVars, customPath, maxConnection, knows>>
  PROVE  /\ Prefix' = Prefix /\ Authorized' = Authorized /\ Hindered' = Hindered
         /\ Given(1, "IndexFile")' = Given(1, "IndexFile")
         /\ Once' = Once
BY DEF startVars, Prefix, Authorized, EnableBasicAuth, Hindered, Given, IsSet, Trouble,
   Once

\* Once it is lost, a place stays lost: the swap of --once is never undone.
LEMMA PlaceStaysLost ==
  ASSUME UNCHANGED <<startVars, customPath, maxConnection, knows>>,
         winner # Nobody => winner' = winner, NEW w \in Windows, NoPlace(w)
  PROVE  NoPlace(w)'
BY ServedAlike DEF NoPlace

\* A step of one window, and what to show of it.
LEMMA OneWindow ==
  ASSUME PageInv, TypeOK', UNCHANGED <<startVars, customPath, maxConnection, knows>>,
         pc = "serving", issued' \in Nat, issued <= issued', issued' <= MaxTokens,
         NEW w \in Windows, NEW shown \in Shown', shown.page # "closed",
         win' = [win EXCEPT ![w] = shown],
         others' \in 0 .. MaxOthers,
         \/ winner' = winner /\ (win[w].ws = "none" \/ shown.ws # "none")
         \/ winner = Nobody /\ winner' = w /\ shown.ws # "none",
         WayOk(w)', TerminalOk(w)', IndexOk(w)', OpenedOk(w)', TokenOk(w)'
  PROVE  PageInv'
<1> USE DEF PageInv
<1>1. win \in [Windows -> Shown] /\ win'[w] = shown
      /\ \A v \in Windows \ {w} : win'[v] = win[v]
  BY WindowTypes
<1>2. Shown \subseteq Shown'
  BY DEF Shown, SiteTypeOK
<1>3. SiteTypeOK'
  <2>1. win' \in [Windows -> Shown']
    BY <1>1, <1>2
  <2> QED BY <2>1, SiteAssumption DEF SiteTypeOK, Shown
<1>4. NobodyInv'
  BY <1>1 DEF NobodyInv, startVars, Closed
<1>5. ASSUME NEW v \in Windows \ {w}
      PROVE  (WayOk(v) /\ TerminalOk(v) /\ IndexOk(v) /\ OpenedOk(v) /\ TokenOk(v))'
  <2>1. WayOk(v) /\ TerminalOk(v) /\ IndexOk(v) /\ OpenedOk(v) /\ TokenOk(v)
    OBVIOUS
  <2>2. WayOk(v)' /\ TerminalOk(v)' /\ IndexOk(v)' /\ OpenedOk(v)'
    <3>1. NoPlace(v) => NoPlace(v)'
      BY PlaceStaysLost
    <3> QED BY <2>1, <3>1, <1>1, ServedAlike
            DEF WayOk, TerminalOk, IndexOk, OpenedOk, EndsInSlash
  <2>3. TokenOk(v)'
    BY <2>1, <1>1 DEF TokenOk
  <2> QED BY <2>2, <2>3
<1>6. WinnerOk'
  BY <1>1 DEF WinnerOk
<1> QED BY <1>3, <1>4, <1>5, <1>6

LEMMA PageInvInit == SiteInit => PageInv
<1> SUFFICES ASSUME SiteInit PROVE PageInv
  OBVIOUS
<1>1. TypeOK
  BY StartInvInit DEF SiteInit, StartInv
<1>2. Closed \in Shown
  BY DEF SiteInit, Closed, Shown, Pages, Sockets
<1>3. SiteTypeOK
  <2>1. win \in [Windows -> Shown]
    BY <1>2 DEF SiteInit
  <2>2. maxConnection \in Limits \cup {0}
    BY DEF SiteInit
  <2> QED BY <1>1, <2>1, <2>2, SiteAssumption DEF SiteInit, SiteTypeOK, Shown
<1>4. \A w \in Windows : win[w] = Closed
  BY DEF SiteInit
<1>5. NobodyInv /\ \A w \in Windows : 
        WayOk(w) /\ TerminalOk(w) /\ IndexOk(w) /\ OpenedOk(w) /\ TokenOk(w)
  BY <1>4 DEF NobodyInv, WayOk, TerminalOk, IndexOk, OpenedOk, TokenOk, Closed
<1>6. WinnerOk
  BY WinnerAssumption DEF SiteInit, WinnerOk
<1> QED BY <1>3, <1>5, <1>6 DEF PageInv

-----------------------------------------------------------------------------
(* Steps of the windows.                                                   *)

\* What every one of them leaves alone.
LEMMA ServingKeeps ==
  ASSUME TypeOK, Serving
  PROVE  /\ pc = "serving" /\ UNCHANGED <<startVars, customPath, maxConnection, knows>>
         /\ TypeOK'
BY DEF Serving, fixedVars, startVars, TypeOK

LEMMA QuietDoor ==
  ASSUME SiteTypeOK, UNCHANGED doorVars
  PROVE  winner' = winner /\ others' \in 0 .. MaxOthers
BY DEF SiteTypeOK, doorVars

\* A window that is just opened.
Opened(path, token, opener) ==
  [Closed EXCEPT !.at = path, !.token = token, !.opener = opener, !.page = "asked"]

LEMMA NewWindow ==
  ASSUME issued' \in Nat, NEW path \in Paths, NEW token \in 0 .. issued',
         NEW opener \in Paths \cup {<<>>}
  PROVE  LET shown == Opened(path, token, opener)
         IN /\ shown \in Shown' /\ shown.at = path /\ shown.token = token
            /\ shown.opener = opener /\ shown.page = "asked"
            /\ shown.asked = 0 /\ shown.whole /\ shown.ws = "none"
<1> DEFINE shown == Opened(path, token, opener)
<1>1. Closed \in Shown'
  BY DEF Closed, Shown, Pages, Sockets
<1>2. shown \in Shown'
  BY <1>1 DEF Shown, Pages, Opened
<1>3. /\ shown.at = path /\ shown.token = token /\ shown.opener = opener
      /\ shown.page = "asked" /\ shown.asked = 0 /\ shown.whole /\ shown.ws = "none"
  BY DEF Closed, Opened
<1> QED BY <1>2, <1>3

LEMMA VisitKeeps ==
  ASSUME PageInv, NEW w \in Windows, Visit(w)
  PROVE  PageInv'
<1>1. SiteTypeOK /\ TypeOK /\ customPath \in CustomPaths /\ issued \in 0 .. MaxTokens
  BY DEF PageInv, SiteTypeOK
<1>2. PICK path \in Typed \cup {Prefix}, token \in 0 .. issued :
        Open(w, path, token, <<>>)
  BY DEF Visit
<1> DEFINE shown == Opened(path, token, <<>>)
<1>3. path \in Paths
  <2>1. Prefix \in Paths
    BY <1>1, PrefixIsPath
  <2>2. Typed \subseteq Paths
    BY SiteAssumption
  <2> QED BY <2>1, <2>2
<1>4. win' = [win EXCEPT ![w] = shown] /\ issued' = issued
  BY <1>2 DEF Open, Opened, Visit
<1>5. /\ shown.at = path /\ shown.opener = <<>> /\ shown.page = "asked"
      /\ shown.asked = 0 /\ shown.whole /\ shown.ws = "none" /\ shown \in Shown'
  <2>1. issued' \in Nat /\ token \in 0 .. issued' /\ <<>> \in Paths \cup {<<>>}
    BY <1>1, <1>4
  <2> QED BY <1>3, <2>1, NewWindow
<1> HIDE DEF shown
<1>6. win'[w] = shown
  BY <1>1, <1>4, WindowTypes
<1>7. WayOk(w)' /\ TerminalOk(w)' /\ IndexOk(w)' /\ OpenedOk(w)' /\ TokenOk(w)'
  <2>1. WayOk(w)' /\ TerminalOk(w)' /\ IndexOk(w)'
    BY <1>3, <1>5, <1>6 DEF WayOk, TerminalOk, IndexOk
  <2>2. <<>> # <<"/">>
    OBVIOUS
  <2>3. OpenedOk(w)' /\ TokenOk(w)'
    BY <1>5, <1>6, <2>2 DEF OpenedOk, TokenOk
  <2> QED BY <2>1, <2>3
<1>8. issued' \in Nat /\ issued <= issued' /\ issued' <= MaxTokens
  BY <1>1, <1>4, SiteAssumption
<1>9. win[w].ws = "none" /\ winner' = winner /\ others' \in 0 .. MaxOthers
  BY <1>1, QuietDoor DEF Visit, PageInv, NobodyInv, Closed
<1> QED BY <1>1, <1>4, <1>5, <1>7, <1>8, <1>9, ServingKeeps, OneWindow DEF Visit

LEMMA LoadKeeps ==
  ASSUME PageInv, NEW w \in Windows, Load(w)
  PROVE  PageInv'
<1>1. /\ SiteTypeOK /\ TypeOK /\ customPath \in CustomPaths /\ issued \in 0 .. MaxTokens
      /\ win \in [Windows -> Shown]
      /\ WayOk(w) /\ OpenedOk(w) /\ TokenOk(w)
  BY WindowTypes DEF PageInv, SiteTypeOK
<1>2. /\ win[w].page = "asked" /\ issued' = issued
      /\ pc = "serving" /\ UNCHANGED <<startVars, customPath, maxConnection, knows>> /\ TypeOK'
  BY <1>1, ServingKeeps DEF Load
<1>3. /\ win[w] \in Shown /\ win[w].at \in Paths
      /\ win[w].asked = 0 /\ win[w].whole /\ win[w].ws = "none"
  BY <1>1, <1>2 DEF WayOk
<1>4. Shown' = Shown
  BY <1>2 DEF Shown
<1>5. issued' \in Nat /\ issued <= issued' /\ issued' <= MaxTokens
  BY <1>1, <1>2, SiteAssumption
<1>6. /\ Prefix' = Prefix /\ Authorized' = Authorized
      /\ Given(1, "IndexFile")' = Given(1, "IndexFile")
  BY <1>2, ServedAlike
<1>7. win[w].ws = "none" /\ winner' = winner /\ others' \in 0 .. MaxOthers
  BY <1>1, QuietDoor DEF Load, WayOk
<1>8. CASE ~Authorized /\ win' = [win EXCEPT ![w].page = "refused"]
  <2> DEFINE shown == [win[w] EXCEPT !.page = "refused"]
  <2>1. /\ shown \in Shown' /\ shown.page = "refused" /\ shown.at = win[w].at
        /\ shown.opener = win[w].opener /\ shown.token = win[w].token
    BY <1>3, <1>4 DEF Shown, Pages
  <2>2. win' = [win EXCEPT ![w] = shown]
    BY <1>1, <1>8
  <2> HIDE DEF shown
  <2>3. win'[w] = shown /\ \A v \in Windows \ {w} : win'[v] = win[v]
    BY <1>1, <2>2
  <2>4. WayOk(w)' /\ TerminalOk(w)' /\ IndexOk(w)'
    BY <1>3, <2>1, <2>3 DEF WayOk, TerminalOk, IndexOk
  <2>5. OpenedOk(w)' /\ TokenOk(w)'
    BY <1>1, <1>8, <2>1, <2>3 DEF OpenedOk, TokenOk
  <2> QED BY <1>2, <1>5, <2>1, <2>2, <2>4, <2>5, OneWindow, <1>7
<1>9. CASE /\ Authorized /\ Redirected(win[w].at)
           /\ win' = [win EXCEPT ![w].at = Append(@, "/")]
  <2> DEFINE shown == [win[w] EXCEPT !.at = Append(win[w].at, "/")]
  <2>1. Append(win[w].at, "/") \in Paths
    BY <1>1, <1>9, PrefixIsPath, PatternEnds DEF Redirected
  <2>2. /\ shown \in Shown' /\ shown.page = "asked" /\ shown.at = Append(win[w].at, "/")
        /\ shown.asked = 0 /\ shown.whole /\ shown.ws = "none"
        /\ shown.opener = win[w].opener /\ shown.token = win[w].token
    BY <1>2, <1>3, <1>4, <2>1 DEF Shown
  <2>3. win' = [win EXCEPT ![w] = shown]
    BY <1>1, <1>9
  <2> HIDE DEF shown
  <2>4. win'[w] = shown /\ \A v \in Windows \ {w} : win'[v] = win[v]
    BY <1>1, <2>3
  <2>5. WayOk(w)' /\ TerminalOk(w)' /\ IndexOk(w)' /\ TokenOk(w)'
    BY <1>1, <2>1, <2>2, <2>4 DEF WayOk, TerminalOk, IndexOk, TokenOk
  <2>6. OpenedOk(w)'
    <3> SUFFICES ASSUME shown.opener = <<"/">>
                 PROVE  /\ Prefix = TerminalPath /\ Authorized
                        /\ shown.at = TerminalPath
      BY <1>6, <2>2, <2>4 DEF OpenedOk
    <3>1. /\ Prefix = TerminalPath
          /\ win[w].at \in {<<"/", "terminal">>, TerminalPath}
      BY <1>1, <1>2, <2>2 DEF OpenedOk
    <3>2. win[w].at = <<"/", "terminal">>
      BY <3>1, <1>9, TerminalRedirect
    <3> QED BY <1>9, <2>2, <3>1, <3>2, TerminalRedirect
  <2> QED BY <1>2, <1>5, <2>2, <2>3, <2>5, <2>6, OneWindow, <1>7
<1>10. ASSUME Authorized, ~Redirected(win[w].at),
             NEW page \in {"index.html", "terminal.html", "other"},
             page # "other" => page \in Answers(win[w].at),
             page = "other" => "terminal.html" \notin Answers(win[w].at),
             win' = [win EXCEPT ![w].page = page]
      PROVE  PageInv'
  <2> DEFINE shown == [win[w] EXCEPT !.page = page]
  <2>1. /\ shown \in Shown' /\ shown.page = page /\ shown.at = win[w].at
        /\ shown.asked = 0 /\ shown.whole /\ shown.ws = "none"
        /\ shown.opener = win[w].opener /\ shown.token = win[w].token
    BY <1>3, <1>4 DEF Shown, Pages
  <2>2. win' = [win EXCEPT ![w] = shown]
    BY <1>1, <1>10
  <2> HIDE DEF shown
  <2>3. win'[w] = shown /\ \A v \in Windows \ {w} : win'[v] = win[v]
    BY <1>1, <2>2
  <2>4. WayOk(w)' /\ TerminalOk(w)' /\ TokenOk(w)'
    <3>1. page # "asked"
      OBVIOUS
    <3>2. WayOk(w)'
      BY <1>3, <2>1, <2>3, <3>1 DEF WayOk
    <3>3. TerminalOk(w)'
      BY <2>1, <2>3 DEF TerminalOk
    <3>4. TokenOk(w)'
      BY <1>1, <2>1, <2>3 DEF TokenOk
    <3> QED BY <3>2, <3>3, <3>4
  <2>5. IndexOk(w)'
    <3>1. CASE page = "index.html"
      <4>1. customPath = <<>>
        BY <1>10, <3>1, IndexPage
      <4>2. ~(win'[w].asked > 0)
        BY <2>1, <2>3
      <4>3. Authorized' /\ customPath' = <<>>
        BY <1>2, <1>6, <1>10, <4>1
      <4> QED BY <4>2, <4>3 DEF IndexOk
    <3>2. CASE page # "index.html"
      BY <2>1, <2>3, <3>2 DEF IndexOk
    <3> QED BY <3>1, <3>2
  <2>6. OpenedOk(w)'
    <3> SUFFICES ASSUME shown.opener = <<"/">>
                 PROVE  /\ Prefix = TerminalPath /\ Authorized
                        /\ ~Given(1, "IndexFile") =>
                             page = "terminal.html" /\ shown.at = TerminalPath
      BY <1>6, <2>1, <2>3 DEF OpenedOk
    <3>1. /\ Prefix = TerminalPath
          /\ win[w].at \in {<<"/", "terminal">>, TerminalPath}
      BY <1>1, <1>2, <2>1 DEF OpenedOk
    <3>2. win[w].at = TerminalPath
      BY <3>1, <1>10, TerminalRedirect
    <3>3. ~Given(1, "IndexFile") => page = "terminal.html"
      BY <3>1, <3>2, <1>10, TerminalRedirect
    <3> QED BY <1>10, <2>1, <3>1, <3>2, <3>3
  <2> QED BY <1>2, <1>5, <2>1, <2>2, <2>4, <2>5, <2>6, OneWindow, <1>7
<1> QED BY <1>8, <1>9, <1>10 DEF Load

LEMMA FetchKeeps ==
  ASSUME PageInv, NEW w \in Windows, Fetch(w)
  PROVE  PageInv'
<1>1. /\ SiteTypeOK /\ TypeOK /\ customPath \in CustomPaths /\ issued \in 0 .. MaxTokens
      /\ win \in [Windows -> Shown]
      /\ WayOk(w) /\ TerminalOk(w) /\ IndexOk(w) /\ OpenedOk(w) /\ TokenOk(w)
  BY WindowTypes DEF PageInv, SiteTypeOK
<1>2. /\ issued' = issued
      /\ pc = "serving" /\ UNCHANGED <<startVars, customPath, maxConnection, knows>> /\ TypeOK'
  BY <1>1, ServingKeeps DEF Fetch
<1>3. /\ Prefix' = Prefix /\ Authorized' = Authorized /\ Hindered' = Hindered
      /\ Given(1, "IndexFile")' = Given(1, "IndexFile")
  BY <1>2, ServedAlike
<1>4. issued' \in Nat /\ issued <= issued' /\ issued' <= MaxTokens
  BY <1>1, <1>2, SiteAssumption
<1> DEFINE page == win[w].page
           base == win[w].at
           link == Scripts(page)[win[w].asked + 1]
           good == /\ Last(link) \in Answers(Resolve(base, link))
                   /\ ~(link = <<"auth_token.js">> /\ Given(1, "Credential")
                          /\ Trouble("quote"))
           shown == [win[w] EXCEPT !.asked = @ + 1, !.whole = @ /\ good]
<1>5. win[w].asked < Len(Scripts(page)) /\ win' = [win EXCEPT ![w] = shown]
      /\ good \in BOOLEAN
  BY <1>1 DEF Fetch
<1> HIDE DEF good
<1>6. /\ page \in {"terminal.html", "index.html"}
      /\ win[w].asked \in 0 .. 2 /\ win[w] \in Shown
  <2>1. page \in Pages /\ win[w].asked \in 0 .. 3 /\ win[w] \in Shown
    BY <1>1 DEF Shown
  <2>2. page \notin {"terminal.html", "index.html"} => Len(Scripts(page)) = 0
    BY DEF Scripts
  <2>3. Len(Scripts("terminal.html")) = 3 /\ Len(Scripts("index.html")) = 2
    BY DEF Scripts
  <2> HIDE DEF page
  <2> DEFINE n == Len(Scripts(page))
             k == win[w].asked
  <2>4. k < n /\ k \in 0 .. 3
    BY <1>5, <2>1
  <2> HIDE DEF n, k
  <2>5. CASE page \notin {"terminal.html", "index.html"}
    <3>1. n = 0
      BY <2>2, <2>5 DEF n
    <3> QED BY <2>4, <3>1
  <2>6. CASE page = "terminal.html"
    <3>1. n = 3
      BY <2>3, <2>6 DEF n
    <3>2. k \in 0 .. 2
      BY <2>4, <3>1
    <3> QED BY <2>1, <2>6, <3>2 DEF k
  <2>7. CASE page = "index.html"
    <3>1. n = 2
      BY <2>3, <2>7 DEF n
    <3>2. k \in 0 .. 2
      BY <2>4, <3>1
    <3> QED BY <2>1, <2>7, <3>2 DEF k
  <2> QED BY <2>5, <2>6, <2>7
<1>7. base \in Paths
  BY <1>1, <1>6 DEF WayOk
<1>8. /\ shown \in Shown' /\ shown.page = page /\ shown.at = base
      /\ shown.asked = win[w].asked + 1 /\ shown.whole = (win[w].whole /\ good)
      /\ shown.ws = win[w].ws /\ shown.opener = win[w].opener
      /\ shown.token = win[w].token
  <2>1. Shown' = Shown
    BY <1>2 DEF Shown
  <2>2. win[w].asked + 1 \in 0 .. 3 /\ (win[w].whole /\ good) \in BOOLEAN
    BY <1>6
  <2>3. shown \in Shown
    BY <1>6, <2>2 DEF Shown
  <2>4. /\ shown.page = page /\ shown.at = base
        /\ shown.asked = win[w].asked + 1 /\ shown.whole = (win[w].whole /\ good)
        /\ shown.ws = win[w].ws /\ shown.opener = win[w].opener
        /\ shown.token = win[w].token
    BY <1>6 DEF Shown
  <2> QED BY <2>1, <2>3, <2>4
<1>9. ASSUME page = "terminal.html", base = Prefix, EndsInSlash(Prefix), ~Hindered
      PROVE  good
  <2>1. link \in {<<"auth_token.js">>, <<"config.js">>,
                  <<"js", "/", "gotty-bundle.js">>}
    BY <1>6, <1>9 DEF Scripts
  <2>2. link \in Seq(Words)
    <3>1. {"auth_token.js", "config.js", "js", "/", "gotty-bundle.js"} \subseteq Words
      BY SiteAssumption DEF Bundles
    <3>2. /\ <<"auth_token.js">> \in Seq(Words) /\ <<"config.js">> \in Seq(Words)
          /\ <<"js", "/", "gotty-bundle.js">> \in Seq(Words)
      BY <3>1
    <3> QED BY <2>1, <3>2
  <2> HIDE DEF link
  <2>3. Resolve(base, link) = Prefix \o link
    BY <1>7, <1>9, <2>2, ResolveBelow
  <2>4. Last(link) \in Answers(Prefix \o link)
    BY <1>7, <1>9, <2>1, TerminalScripts
  <2>5. ~(Given(1, "Credential") /\ Trouble("quote"))
    BY <1>9 DEF Hindered
  <2> QED BY <2>3, <2>4, <2>5 DEF good
<1>10. ASSUME page = "index.html", base = <<"/">>, win[w].asked = 0, good
       PROVE  Prefix = TerminalPath
  <2>1. link = <<"terminal", "/", "js", "/", "index-lib.js">>
    BY <1>10 DEF Scripts
  <2>2. link \in Seq(Words) /\ Last(link) = "index-lib.js"
    <3>1. {"terminal", "js", "/", "index-lib.js"} \subseteq Words
      BY SiteAssumption DEF Bundles
    <3> QED BY <2>1, <3>1 DEF Last
  <2>3. EndsInSlash(<<"/">>)
    BY DEF EndsInSlash, Last
  <2>4. <<"/">> \o link = <<"/", "terminal", "/", "js", "/", "index-lib.js">>
    <3> DEFINE p == <<"/">>
               q == p \o link
    <3>1. /\ p \in Paths /\ Len(p) = 1 /\ p[1] = "/" /\ 1 \in 1 .. Len(p)
          /\ Len(link) = 5 /\ link[1] = "terminal" /\ link[2] = "/" /\ link[3] = "js"
          /\ link[4] = "/" /\ link[5] = "index-lib.js"
      BY <1>7, <1>10, <2>1
    <3> HIDE DEF p, link
    <3>2. /\ q \in Paths /\ Len(q) = Len(p) + Len(link)
          /\ \A i \in 1 .. Len(p) : q[i] = p[i]
          /\ \A i \in 1 .. Len(link) : q[Len(p) + i] = link[i]
      BY <2>2, <3>1, PathConcat
    <3> HIDE DEF q
    <3>3. Len(q) = 6 /\ q[1] = "/"
      BY <3>1, <3>2
    <3>4. \A i \in 1 .. 5 : q[1 + i] = link[i]
      BY <3>1, <3>2
    <3>5. /\ q[2] = "terminal" /\ q[3] = "/" /\ q[4] = "js" /\ q[5] = "/"
          /\ q[6] = "index-lib.js"
      BY <3>1, <3>4
    <3>6. q \in Seq(Words)
      BY <3>2 DEF Paths
    <3>7. q = <<"/", "terminal", "/", "js", "/", "index-lib.js">>
      BY <3>3, <3>5, <3>6
    <3> QED BY <3>7 DEF p, q
  <2> HIDE DEF link
  <2>5. Resolve(<<"/">>, link) = <<"/">> \o link
    BY <1>7, <1>10, <2>2, <2>3, ResolveBelow
  <2>6. "index-lib.js" \in Answers(<<"/", "terminal", "/", "js", "/", "index-lib.js">>)
    BY <1>10, <2>2, <2>4, <2>5 DEF good
  <2>7. customPath = <<>>
    BY <1>1, <1>10 DEF IndexOk
  <2> QED BY <1>1, <2>6, <2>7, IndexScripts
<1> HIDE DEF page, base, link, good, shown
<1>11. win'[w] = shown /\ \A v \in Windows \ {w} : win'[v] = win[v]
  BY <1>1, <1>5
<1>12. winner' = winner /\ others' \in 0 .. MaxOthers
  BY <1>1, QuietDoor DEF Fetch
<1>13. WayOk(w)' /\ TokenOk(w)'
  <2>1. shown.page # "asked" /\ shown.at \in Paths
    BY <1>6, <1>7, <1>8
  <2> QED BY <1>1, <1>8, <1>11, <2>1 DEF WayOk, TokenOk
<1>14. TerminalOk(w)'
  <2> SUFFICES ASSUME page = "terminal.html", base = Prefix,
                      EndsInSlash(Prefix), ~Hindered
               PROVE  /\ shown.whole
                      /\ shown.ws \in {"refusing", "refused"} => NoPlace(w)'
    BY <1>3, <1>8, <1>11 DEF TerminalOk, EndsInSlash
  <2>1. NoPlace(w) => NoPlace(w)'
    BY <1>2, <1>12, PlaceStaysLost
  <2> QED BY <1>1, <1>8, <1>9, <2>1 DEF TerminalOk, page, base
<1>15. IndexOk(w)'
  <2> SUFFICES ASSUME page = "index.html"
               PROVE  /\ Authorized /\ customPath = <<>>
                      /\ base = <<"/">> /\ shown.whole => Prefix = TerminalPath
    BY <1>2, <1>3, <1>8, <1>11 DEF IndexOk
  <2>1. /\ Authorized /\ customPath = <<>>
        /\ base = <<"/">> /\ win[w].asked > 0 /\ win[w].whole => Prefix = TerminalPath
    BY <1>1 DEF IndexOk, page, base
  <2>2. CASE win[w].asked = 0
    BY <1>8, <1>10, <2>1, <2>2
  <2>3. CASE win[w].asked > 0
    BY <1>8, <2>1, <2>3
  <2> QED BY <1>6, <2>2, <2>3
<1>16. OpenedOk(w)'
  BY <1>1, <1>3, <1>6, <1>8, <1>11 DEF OpenedOk, page, base
<1> QED BY <1>2, <1>4, <1>5, <1>6, <1>8, <1>12, <1>13, <1>14, <1>15, <1>16, OneWindow

\* A limit that turns a window down is less than the connections there can be.
LEMMA LimitReached ==
  ASSUME SiteTypeOK, NEW w \in Windows, win[w].ws = "none",
         ~(Counted + 1 <= maxConnection)
  PROVE  maxConnection < MaxOthers + Cardinality(Windows)
<1> DEFINE R == Windows \ {w}
           O == {v \in Windows : win[v].ws \in {"open", "refusing"}}
<1>1. /\ IsFiniteSet(R) /\ Cardinality(R) = Cardinality(Windows) - 1
      /\ Cardinality(Windows) \in Nat
  BY SiteAssumption, FS_RemoveElement, FS_CardinalityType
<1>2. O \in SUBSET R
  OBVIOUS
<1> HIDE DEF R, O
<1>3. Cardinality(O) <= Cardinality(R) /\ Cardinality(O) \in Nat
  BY <1>1, <1>2, FS_Subset, FS_CardinalityType
<1>4. Counted = others + Cardinality(O)
  BY DEF Counted, O
<1>5. others \in Nat /\ others <= MaxOthers /\ MaxOthers \in Nat /\ maxConnection \in Int
  BY SiteAssumption DEF SiteTypeOK
<1> QED BY <1>1, <1>3, <1>4, <1>5

LEMMA ConnectKeeps ==
  ASSUME PageInv, NEW w \in Windows, Connect(w)
  PROVE  PageInv'
<1>1. /\ SiteTypeOK /\ TypeOK /\ customPath \in CustomPaths /\ issued \in 0 .. MaxTokens
      /\ win \in [Windows -> Shown]
      /\ WayOk(w) /\ TerminalOk(w) /\ OpenedOk(w) /\ TokenOk(w) /\ WinnerOk
  BY WindowTypes DEF PageInv, SiteTypeOK
<1>2. /\ issued' = issued /\ win[w].page = "terminal.html" /\ Ready(w)
      /\ win[w].ws = "none" /\ pc = "serving"
      /\ UNCHANGED <<startVars, customPath, maxConnection, knows>> /\ TypeOK'
      /\ others' \in 0 .. MaxOthers
  BY <1>1, ServingKeeps DEF Connect, SiteTypeOK
<1>3. /\ Prefix' = Prefix /\ Authorized' = Authorized /\ Hindered' = Hindered
      /\ Given(1, "IndexFile")' = Given(1, "IndexFile") /\ Once' = Once
  BY <1>2, ServedAlike
<1>4. issued' \in Nat /\ issued <= issued' /\ issued' <= MaxTokens
  BY <1>1, <1>2, SiteAssumption
<1>5. PICK ws \in {"open", "refusing", "refused"} :
        /\ win' = [win EXCEPT ![w].ws = ws]
        /\ \/ winner' = winner \/ (winner = Nobody /\ winner' = w)
        /\ ws = "refusing" => ~Accepted
        /\ ws = "refused" /\ IsWs(win[w].at \o <<"ws">>) =>
             Once /\ winner # Nobody /\ winner' = winner
  <2>1. CASE Claim(w) /\ win' = [win EXCEPT ![w].ws = IF Accepted THEN "open" ELSE "refusing"]
    <3>1. winner' = winner \/ (winner = Nobody /\ winner' = w)
      BY <2>1 DEF Claim
    <3>2. CASE Accepted
      BY <2>1, <3>1, <3>2
    <3>3. CASE ~Accepted
      BY <2>1, <3>1, <3>3
    <3> QED BY <3>2, <3>3
  <2>2. CASE /\ ~IsWs(win[w].at \o <<"ws">>) \/ (Once /\ winner # Nobody)
             /\ win' = [win EXCEPT ![w].ws = "refused"] /\ winner' = winner
    BY <2>2
  <2> QED BY <2>1, <2>2 DEF Connect
<1> DEFINE shown == [win[w] EXCEPT !.ws = ws]
<1>6. /\ win' = [win EXCEPT ![w] = shown] /\ shown \in Shown'
      /\ shown.page = "terminal.html" /\ shown.at = win[w].at
      /\ shown.whole = win[w].whole /\ shown.ws = ws
      /\ shown.opener = win[w].opener /\ shown.token = win[w].token
  <2>1. win[w] \in Shown /\ Shown' = Shown
    BY <1>1, <1>2 DEF Shown
  <2> QED BY <1>1, <1>2, <1>5, <2>1 DEF Shown, Sockets
<1> HIDE DEF shown
<1>7. win'[w] = shown /\ \A v \in Windows \ {w} : win'[v] = win[v]
  BY <1>1, <1>6
<1>8. WayOk(w)' /\ IndexOk(w)' /\ TokenOk(w)'
  BY <1>1, <1>2, <1>6, <1>7 DEF WayOk, IndexOk, TokenOk
<1>9. TerminalOk(w)'
  <2> SUFFICES ASSUME shown.at = Prefix, EndsInSlash(Prefix), ~Hindered
               PROVE  /\ shown.whole
                      /\ shown.ws \in {"refusing", "refused"} => NoPlace(w)'
    BY <1>3, <1>7 DEF TerminalOk, EndsInSlash
  <2>1. shown.whole /\ IsWs(win[w].at \o <<"ws">>)
    BY <1>2, <1>6 DEF IsWs, Ready
  <2>2. ASSUME ws = "refusing" PROVE NoPlace(w)'
    <3>1. maxConnection # 0 /\ ~(Counted + 1 <= maxConnection)
      BY <1>5, <2>2 DEF Accepted, Hindered
    <3>2. maxConnection < MaxOthers + Cardinality(Windows)
      BY <1>1, <1>2, <3>1, LimitReached
    <3> QED BY <1>2, <3>1, <3>2 DEF NoPlace
  <2>3. ASSUME ws = "refused" PROVE NoPlace(w)'
    <3>1. Once /\ winner # Nobody /\ winner' = winner
      BY <1>5, <2>1, <2>3
    <3>2. winner # w
      BY <1>1, <1>2 DEF WinnerOk
    <3> QED BY <1>3, <3>1, <3>2 DEF NoPlace
  <2> QED BY <1>5, <1>6, <2>1, <2>2, <2>3
<1>10. OpenedOk(w)'
  BY <1>1, <1>2, <1>3, <1>6, <1>7 DEF OpenedOk
<1>11. \/ winner' = winner /\ (win[w].ws = "none" \/ shown.ws # "none")
       \/ winner = Nobody /\ winner' = w /\ shown.ws # "none"
  BY <1>2, <1>5, <1>6
<1> QED BY <1>2, <1>4, <1>6, <1>8, <1>9, <1>10, <1>11, OneWindow

\* What a window was given or refused does not change when its handler is done.
LEMMA DoneKeeps ==
  ASSUME PageInv, NEW w \in Windows, Done(w)
  PROVE  PageInv'
<1>1. /\ SiteTypeOK /\ TypeOK /\ issued \in 0 .. MaxTokens
      /\ win \in [Windows -> Shown]
      /\ WayOk(w) /\ TerminalOk(w) /\ IndexOk(w) /\ OpenedOk(w) /\ TokenOk(w)
      /\ NobodyInv
  BY WindowTypes DEF PageInv, SiteTypeOK
<1>2. /\ issued' = issued /\ win[w].ws \in {"open", "refusing"} /\ pc = "serving"
      /\ UNCHANGED <<startVars, customPath, maxConnection, knows>> /\ TypeOK'
      /\ winner' = winner /\ others' \in 0 .. MaxOthers
  BY <1>1, ServingKeeps, QuietDoor DEF Done
<1>3. /\ Prefix' = Prefix /\ Authorized' = Authorized /\ Hindered' = Hindered
      /\ Given(1, "IndexFile")' = Given(1, "IndexFile")
  BY <1>2, ServedAlike
<1>4. issued' \in Nat /\ issued <= issued' /\ issued' <= MaxTokens
  BY <1>1, <1>2, SiteAssumption
<1> DEFINE ws == IF win[w].ws = "open" THEN "ended" ELSE "refused"
           shown == [win[w] EXCEPT !.ws = ws]
<1>5. /\ win' = [win EXCEPT ![w] = shown] /\ shown \in Shown'
      /\ shown.page = win[w].page /\ shown.at = win[w].at
      /\ shown.whole = win[w].whole /\ shown.ws = ws /\ shown.asked = win[w].asked
      /\ shown.opener = win[w].opener /\ shown.token = win[w].token
  <2>1. win[w] \in Shown /\ Shown' = Shown
    BY <1>1, <1>2 DEF Shown
  <2> QED BY <1>1, <1>2, <2>1 DEF Done, Shown, Sockets
<1>6. /\ shown.page # "closed" /\ shown.page # "asked" /\ shown.ws # "none"
      /\ shown.ws = "refused" => win[w].ws = "refusing"
      /\ shown.ws # "refusing"
  BY <1>1, <1>2, <1>5 DEF WayOk, NobodyInv, Closed
<1> HIDE DEF shown, ws
<1>7. win'[w] = shown /\ \A v \in Windows \ {w} : win'[v] = win[v]
  BY <1>1, <1>5
<1>8. NoPlace(w) => NoPlace(w)'
  BY <1>2, PlaceStaysLost
<1>9. (WayOk(w) /\ TerminalOk(w) /\ IndexOk(w) /\ OpenedOk(w) /\ TokenOk(w))'
  BY <1>1, <1>2, <1>3, <1>5, <1>6, <1>7, <1>8
     DEF WayOk, TerminalOk, IndexOk, OpenedOk, TokenOk, EndsInSlash
<1> QED BY <1>2, <1>4, <1>5, <1>6, <1>9, OneWindow

LEMMA OpenTerminalKeeps ==
  ASSUME PageInv, NEW w \in Windows, NEW v \in Windows, OpenTerminal(w, v)
  PROVE  PageInv'
<1>1. /\ SiteTypeOK /\ TypeOK /\ customPath \in CustomPaths /\ issued \in 0 .. MaxTokens
      /\ win \in [Windows -> Shown]
      /\ WayOk(w) /\ IndexOk(w) /\ \A u \in Windows : TokenOk(u)
  BY WindowTypes DEF PageInv, SiteTypeOK
<1>2. /\ issued' = issued + 1 /\ issued < MaxTokens
      /\ win[w].page = "index.html" /\ Ready(w)
      /\ pc = "serving" /\ UNCHANGED <<startVars, customPath, maxConnection, knows>> /\ TypeOK'
  BY <1>1, ServingKeeps DEF OpenTerminal
<1>3. /\ Prefix' = Prefix /\ Authorized' = Authorized /\ Hindered' = Hindered
      /\ Given(1, "IndexFile")' = Given(1, "IndexFile")
  BY <1>2, ServedAlike
<1>4. /\ issued' \in Nat /\ issued <= issued' /\ issued' <= MaxTokens
      /\ issued' \in 0 .. issued' /\ issued' > 0 /\ issued' \notin 0 .. issued
  BY <1>1, <1>2, SiteAssumption
<1> DEFINE base == win[w].at
           path == base \o <<"terminal">>
           shown == Opened(path, issued', base)
<1>5. base \in Paths /\ win' = [win EXCEPT ![v] = shown]
  BY <1>1, <1>2 DEF WayOk, OpenTerminal, Open, Opened
<1>6. path \in Paths
  <2>1. <<"terminal">> \in Seq(Words)
    BY SiteAssumption
  <2> QED BY <1>5, <2>1, PathConcat
<1>7. /\ shown \in Shown' /\ shown.at = path /\ shown.token = issued'
      /\ shown.opener = base /\ shown.page = "asked"
      /\ shown.asked = 0 /\ shown.whole /\ shown.ws = "none"
  <2> HIDE DEF base, path
  <2>1. base \in Paths \cup {<<>>}
    BY <1>5
  <2> QED BY <1>4, <1>6, <2>1, NewWindow
<1>8. ASSUME base = <<"/">>
      PROVE  /\ Prefix = TerminalPath /\ Authorized
             /\ path = <<"/", "terminal">>
  <2>1. win[w].asked > 0 /\ win[w].whole
    <3>1. Len(Scripts("index.html")) = 2
      BY DEF Scripts
    <3>2. win[w].page = "index.html" /\ Ready(w)
      BY <1>2
    <3>3. win[w].asked = 2 /\ win[w].whole
      BY <3>1, <3>2 DEF Ready
    <3> QED BY <3>3
  <2>2. path = <<"/", "terminal">>
    <3> DEFINE link == <<"terminal">>
    <3>1. /\ link \in Seq(Words) /\ Len(link) = 1 /\ link[1] = "terminal"
          /\ 1 \in 1 .. Len(link)
      BY SiteAssumption
    <3>2. Len(base) = 1 /\ base[1] = "/" /\ 1 \in 1 .. Len(base)
      BY <1>8
    <3> HIDE DEF link, base
    <3>3. /\ path \in Paths /\ Len(path) = Len(base) + Len(link)
          /\ \A i \in 1 .. Len(base) : path[i] = base[i]
          /\ \A i \in 1 .. Len(link) : path[Len(base) + i] = link[i]
      BY <1>5, <3>1, PathConcat DEF link
    <3> HIDE DEF path
    <3>4. Len(path) = 2 /\ path[1] = "/" /\ path[2] = "terminal"
      BY <3>1, <3>2, <3>3
    <3>5. path \in Seq(Words)
      BY <3>3 DEF Paths
    <3> QED BY <3>4, <3>5
  <2> QED BY <1>1, <1>2, <1>8, <2>1, <2>2 DEF IndexOk
<1> HIDE DEF shown, path
<1>9. win'[v] = shown /\ \A u \in Windows \ {v} : win'[u] = win[u]
  BY <1>1, <1>5
<1>10. WayOk(v)' /\ TerminalOk(v)' /\ IndexOk(v)'
  BY <1>6, <1>7, <1>9 DEF WayOk, TerminalOk, IndexOk
<1>11. OpenedOk(v)'
  BY <1>3, <1>7, <1>8, <1>9 DEF OpenedOk
<1>12. TokenOk(v)'
  <2>1. \A u \in Windows : win[u].token \in 0 .. issued
    BY <1>1 DEF Shown
  <2> QED BY <1>4, <1>7, <1>9, <2>1 DEF TokenOk
<1>13. win[v].ws = "none" /\ winner' = winner /\ others' \in 0 .. MaxOthers
  BY <1>1, QuietDoor DEF OpenTerminal, PageInv, NobodyInv, Closed
<1> QED BY <1>2, <1>4, <1>5, <1>7, <1>10, <1>11, <1>12, <1>13, OneWindow

-----------------------------------------------------------------------------
(* The other steps.                                                        *)

\* While every window stays as it is, so does what is said of them.
LEMMA OthersKeep ==
  ASSUME PageInv, Issue \/ OtherComes \/ OtherLeaves
  PROVE  PageInv'
<1>1. /\ SiteTypeOK /\ TypeOK /\ issued \in 0 .. MaxTokens
      /\ win \in [Windows -> Shown]
  BY WindowTypes DEF PageInv, SiteTypeOK
<1>2. /\ issued' \in {issued, issued + 1} /\ issued' <= MaxTokens /\ win' = win
      /\ pc = "serving" /\ UNCHANGED <<startVars, customPath, maxConnection, knows>>
      /\ TypeOK'
  <2>1. issued' = issued \/ (issued < MaxTokens /\ issued' = issued + 1)
    BY DEF Issue, OtherComes, OtherLeaves
  <2>2. issued' \in {issued, issued + 1} /\ issued' <= MaxTokens
    BY <1>1, <2>1, SiteAssumption
  <2> QED BY <1>1, <2>2, ServingKeeps DEF Issue, OtherComes, OtherLeaves
<1>3. winner' = winner \/ (winner = Nobody /\ winner' = Other)
  BY DEF Issue, OtherComes, OtherLeaves, doorVars, Claim
<1>4. others' \in 0 .. MaxOthers
  <2>1. others \in 0 .. MaxOthers /\ MaxOthers \in Nat
    BY <1>1, SiteAssumption DEF SiteTypeOK
  <2> QED BY <2>1 DEF Issue, OtherComes, OtherLeaves, doorVars
<1>5. SiteTypeOK'
  <2>1. issued' \in 0 .. MaxTokens /\ Shown \subseteq Shown'
    BY <1>1, <1>2, SiteAssumption DEF Shown
  <2>2. win' \in [Windows -> Shown']
    BY <1>1, <1>2, <2>1
  <2> QED BY <1>1, <1>2, <1>3, <1>4, <2>1, <2>2 DEF SiteTypeOK, Shown
<1>6. NobodyInv' /\ WinnerOk'
  BY <1>2, <1>3, WinnerAssumption DEF PageInv, NobodyInv, WinnerOk, Closed, startVars
<1>7. ASSUME NEW w \in Windows
      PROVE  (WayOk(w) /\ TerminalOk(w) /\ IndexOk(w) /\ OpenedOk(w) /\ TokenOk(w))'
  <2>1. NoPlace(w) => NoPlace(w)'
    BY <1>2, <1>3, PlaceStaysLost
  <2> QED BY <1>2, <2>1, ServedAlike
          DEF PageInv, WayOk, TerminalOk, IndexOk, OpenedOk, TokenOk, EndsInSlash
<1> QED BY <1>5, <1>6, <1>7 DEF PageInv

\* A server that serves has no step of its start left.
LEMMA StartEnds == ASSUME StartNext PROVE pc # "serving"
BY DEF StartNext, Parse, Action, ApplyFlag, Validate, New, SetUp, Listen, Serve

LEMMA StartKeeps ==
  ASSUME PageInv, TypeOK', Start
  PROVE  PageInv'
<1>1. SiteTypeOK /\ NobodyInv /\ WinnerOk
  BY DEF PageInv
<1>2. /\ pc # "serving"
      /\ UNCHANGED <<customPath, maxConnection, knows, issued, winner, others, win>>
  BY StartEnds DEF Start, doorVars
<1>3. \A w \in Windows : win'[w] = Closed
  BY <1>1, <1>2 DEF NobodyInv
<1>4. SiteTypeOK'
  BY <1>1, <1>2 DEF SiteTypeOK
<1>5. NobodyInv' /\ \A w \in Windows :
        (WayOk(w) /\ TerminalOk(w) /\ IndexOk(w) /\ OpenedOk(w) /\ TokenOk(w))'
  BY <1>3 DEF NobodyInv, WayOk, TerminalOk, IndexOk, OpenedOk, TokenOk, Closed
<1>6. WinnerOk'
  BY <1>1, <1>2 DEF WinnerOk
<1> QED BY <1>4, <1>5, <1>6 DEF PageInv

LEMMA PageInvNext ==
  ASSUME PageInv, TypeOK', [SiteNext]_siteVars
  PROVE  PageInv'
<1>1. CASE Start
  BY <1>1, StartKeeps
<1>2. CASE Issue \/ OtherComes \/ OtherLeaves
  BY <1>2, OthersKeep
<1>3. ASSUME NEW w \in Windows,
             Visit(w) \/ Load(w) \/ Fetch(w) \/ Connect(w) \/ Done(w)
      PROVE  PageInv'
  BY <1>3, VisitKeeps, LoadKeeps, FetchKeeps, ConnectKeeps, DoneKeeps
<1>4. ASSUME NEW w \in Windows, NEW v \in Windows, OpenTerminal(w, v)
      PROVE  PageInv'
  BY <1>4, OpenTerminalKeeps
<1>5. CASE UNCHANGED siteVars
  <2>1. UNCHANGED <<startVars, customPath, maxConnection, knows, issued, winner, others,
                    win, pc>>
    BY <1>5 DEF siteVars, fixedVars, doorVars, startVars
  <2>2. SiteTypeOK' /\ NobodyInv' /\ WinnerOk'
    BY <2>1 DEF PageInv, SiteTypeOK, NobodyInv, WinnerOk, Closed
  <2>3. \A w \in Windows :
          (WayOk(w) /\ TerminalOk(w) /\ IndexOk(w) /\ OpenedOk(w) /\ TokenOk(w))'
    BY <2>1, ServedAlike, PlaceStaysLost
       DEF PageInv, WayOk, TerminalOk, IndexOk, OpenedOk, TokenOk, EndsInSlash
  <2> QED BY <2>2, <2>3 DEF PageInv
<1> QED BY <1>1, <1>2, <1>3, <1>4, <1>5 DEF SiteNext

LEMMA PagesStay == SiteSpec => []PageInv
<1>1. SiteSpec => []TypeOK
  BY SiteStarts, StartTypes, PTL
<1>2. PageInv /\ TypeOK' /\ [SiteNext]_siteVars => PageInv'
  BY PageInvNext
<1> QED BY <1>1, <1>2, PageInvInit, PTL DEF SiteSpec

-----------------------------------------------------------------------------
(* What follows from it.                                                   *)

LEMMA CompleteInPageInv == PageInv => TerminalIsComplete
<1> SUFFICES ASSUME PageInv, NEW w \in Windows, Settled(w),
                    win[w].page = "terminal.html", win[w].at = Prefix,
                    EndsInSlash(Prefix), ~Hindered
             PROVE  win[w].whole /\ Served(w)
  BY DEF TerminalIsComplete
<1>1. win[w].whole /\ (win[w].ws = "refused" => NoPlace(w))
  BY DEF PageInv, TerminalOk
<1>2. win[w].ws \notin {"none", "refusing"}
  BY <1>1 DEF Settled, Ready
<1>3. win[w].ws \in Sockets
  BY WindowTypes DEF PageInv, Shown
<1> QED BY <1>1, <1>2, <1>3 DEF Sockets, Served

\* For all windows, paths and inputs the variables of a site keep their types:
\* no redirect, link or script leads to what is not a path.
THEOREM SiteTypes == SiteSpec => []SiteTypeOK
<1>1. PageInv => SiteTypeOK
  BY DEF PageInv
<1> QED BY <1>1, PagesStay, PTL

\* Whatever TERMINAL_PATH, as long as it ends in a slash, and with or without
\* --random-url, a terminal page at its own path gets its scripts, and its
\* websocket unless --once or --max-connection leave no place for it.
THEOREM TerminalComplete == SiteSpec => []TerminalIsComplete
BY CompleteInPageInv, PagesStay, PTL

\* Whatever the paths and the options, and however many windows share the site,
\* a window that the index page at / opens comes to the terminal with a token of
\* its own, and to a session where the server has a place for one.
THEOREM TokenComes == SiteSpec => []TokenArrives
<1>1. PageInv => TokenArrives
  <2> SUFFICES ASSUME PageInv, NEW w \in Windows, win[w].opener = <<"/">>
               PROVE  /\ Prefix = TerminalPath
                      /\ Settled(w) /\ ~Given(1, "IndexFile") /\ ~Hindered =>
                           win[w].page = "terminal.html" /\ Served(w)
                      /\ win[w].token # 0
                      /\ \A v \in Windows \ {w} :
                           win[v].opener # <<>> => win[v].token # win[w].token
    BY DEF TokenArrives, TerminalPath
  <2>1. Prefix = TerminalPath
    BY DEF PageInv, OpenedOk
  <2>2. /\ win[w].token # 0
        /\ \A v \in Windows \ {w} :
             win[v].opener # <<>> => win[v].token # win[w].token
    <3>1. <<"/">> # <<>>
      OBVIOUS
    <3> QED BY <3>1 DEF PageInv, TokenOk
  <2>3. ASSUME Settled(w), ~Given(1, "IndexFile"), ~Hindered
        PROVE  win[w].page = "terminal.html" /\ Served(w)
    <3>1. win[w].page = "terminal.html" /\ win[w].at = TerminalPath
      BY <2>3 DEF PageInv, OpenedOk, Settled
    <3>2. EndsInSlash(TerminalPath)
      <4>1. Len(TerminalPath) = 3 /\ TerminalPath[3] = "/"
        BY DEF TerminalPath
      <4> QED BY <4>1 DEF EndsInSlash, Last
    <3>3. TerminalIsComplete
      BY CompleteInPageInv
    <3> QED BY <2>1, <2>3, <3>1, <3>2, <3>3 DEF TerminalIsComplete
  <2> QED BY <2>1, <2>2, <2>3
<1> QED BY <1>1, PagesStay, PTL
=============================================================================
