------------------------------- MODULE Cookies -------------------------------
(***************************************************************************)
(* Cookies (crates/http/src/cookie.rs): the SetCookie builder, the header  *)
(* it is written to, and RequestHead::cookies (request.rs), which reads    *)
(* what a browser returns. A text is a sequence of characters; a prefix or *)
(* the name of an attribute is one character. The browser follows RFC      *)
(* 6265.                                                                   *)
(***************************************************************************)
EXTENDS Integers, Sequences, FiniteSets, SequencesExt

CONSTANTS
  CkNames,     \* names a cookie is given
  CkValues,    \* values
  CkPaths,     \* values of Path
  CkAges,      \* values of Max-Age, texts
  CkRequests,  \* sequences of Cookie headers that no browser would send
  CkMaxBytes,  \* MAX_COOKIE_STRING_BYTES
  CkMaxCount,  \* MAX_COOKIE_COUNT
  CkMaxCalls,  \* bound: attributes set on the first cookie, none on others
  CkMaxJar     \* bound: cookies sent

ASSUME CookiesAssumption ==
  /\ CkMaxBytes \in Nat /\ CkMaxCount \in Nat /\ CkMaxCalls \in Nat /\ CkMaxJar \in Nat

VARIABLES
  ckCookie,  \* the SetCookie that is being built
  ckCalls,   \* how many attributes were set on it
  ckJar,     \* what the browser keeps: pairs of name and value
  ckText,    \* the last Set-Cookie header, and the constructor of its cookie
  ckCount,   \* how many were sent
  ckSent,    \* the Cookie headers of the last request
  ckRead     \* what cookies() made of them

ckVars == <<ckCookie, ckCalls, ckJar, ckText, ckCount, ckSent, ckRead>>

\* The classes of characters that the code tells apart.
Separators == {"=", ";", ",", "quote", " ", "/"}
Tchar(c) == c \notin Separators \cup {"ctl"}
CookieOctet(c) == c \notin {";", ",", "quote", " ", "ctl"}
PathChar(c) == c \notin {";", "ctl"}

HostPrefixes == {"__Host-", "__HOST-"}
SecurePrefixes == {"__Secure-", "__secure-"}

\* Mutation of DetectPrefix: the case of the prefix matters.
ExactPrefix(name) ==
  IF name = <<>> THEN "none"
  ELSE IF name[1] = "__Host-" THEN "Host" ELSE IF name[1] = "__Secure-" THEN "Secure" ELSE "none"
DetectPrefix(name) ==
  IF name = <<>> THEN "none"
  ELSE IF name[1] \in HostPrefixes THEN "Host"
  ELSE IF name[1] \in SecurePrefixes THEN "Secure" ELSE "none"

\* validate_name_value
NameValueOk(name, value) ==
  /\ name # <<>> /\ \A i \in 1..Len(name) : Tchar(name[i])
  /\ \A i \in 1..Len(value) : CookieOctet(value[i])

\* The absent path is the empty one, the absent Max-Age and SameSite are "".
NoCookie == [made |-> "no", name |-> <<>>, value |-> <<>>, httpOnly |-> FALSE,
             secure |-> FALSE, sameSite |-> "", path |-> <<>>, maxAge |-> "", prefix |-> "none"]

\* SetCookie::build
BuildCookie(how, name, value, prefix) ==
  [NoCookie EXCEPT !.made = how, !.name = name, !.value = value, !.prefix = prefix,
                   !.secure = prefix # "none",
                   !.path = IF prefix = "Host" THEN <<"/">> ELSE <<>>]

\* No request was read yet.
Nothing == [error |-> "none", pairs |-> <<>>]

\* Mutation of SessionCookie: the prefix of the name is not looked for.
PlainSession(name, value, site) ==
  [BuildCookie("session", name, value, "none")
     EXCEPT !.httpOnly = TRUE, !.secure = TRUE, !.path = <<"/">>, !.sameSite = site]
SessionCookie(name, value, site) ==
  [BuildCookie("session", name, value, DetectPrefix(name))
     EXCEPT !.httpOnly = TRUE, !.secure = TRUE, !.path = <<"/">>, !.sameSite = site]

\* The constructors: new, session_with, session_removal_with, host_prefixed
\* and secure_prefixed. One that returns an error leaves no cookie.
Construct ==
  /\ ckCookie = NoCookie /\ ckRead = Nothing /\ ckCount < CkMaxJar
  /\ \E name \in CkNames, value \in CkValues :
       LET p == DetectPrefix(name)
       IN /\ NameValueOk(name, value)
          /\ \/ p = "none" /\ ckCookie' = BuildCookie("new", name, value, "none")
             \/ p = "Host" /\ ckCookie' = BuildCookie("host", name, value, "Host")
             \/ p = "Secure" /\ ckCookie' = BuildCookie("secure", name, value, "Secure")
             \/ \E site \in {"Lax", "Strict"} :
                  \/ ckCookie' = SessionCookie(name, value, site)
                  \/ ckCookie' = [SessionCookie(name, <<>>, site) EXCEPT !.maxAge = "0", !.made = "removal"]
  /\ UNCHANGED <<ckCalls, ckJar, ckText, ckCount, ckSent, ckRead>>

\* Mutation of SameSite: None does not bring Secure.
SameSiteNotSecured(site) == ckCookie' = [ckCookie EXCEPT !.sameSite = site]
\* SameSite=None needs Secure, and brings it.
SameSite(site) ==
  ckCookie' = [ckCookie EXCEPT !.sameSite = site, !.secure = @ \/ site = "None"]

\* Mutation of Path: a __Host- cookie may have any path.
AnyPath(p) ==
  ckCookie' = IF p # <<>> /\ p[1] = "/" /\ \A i \in 1..Len(p) : PathChar(p[i])
              THEN [ckCookie EXCEPT !.path = p] ELSE NoCookie
\* A path that is refused takes the cookie with it: path consumes self.
Path(p) ==
  ckCookie' = IF /\ p # <<>> /\ p[1] = "/" /\ \A i \in 1..Len(p) : PathChar(p[i])
                 /\ ckCookie.prefix = "Host" => p = <<"/">>
              THEN [ckCookie EXCEPT !.path = p] ELSE NoCookie

SetAttribute ==
  /\ ckCookie # NoCookie /\ ckCalls < CkMaxCalls /\ ckCount = 0
  /\ ckCalls' = ckCalls + 1
  /\ \/ ckCookie' = [ckCookie EXCEPT !.httpOnly = TRUE]
     \/ ckCookie' = [ckCookie EXCEPT !.secure = TRUE]
     \/ \E site \in {"Lax", "Strict", "None"} : SameSite(site)
     \/ \E p \in CkPaths : Path(p)
     \/ \E n \in CkAges : ckCookie' = [ckCookie EXCEPT !.maxAge = n]
  /\ UNCHANGED <<ckJar, ckText, ckCount, ckSent, ckRead>>

\* SetCookie::to_header_value
HeaderValue(c) ==
  c.name \o <<"=">> \o c.value
  \o (IF c.path = <<>> THEN <<>> ELSE <<";", " ", "Path", "=">> \o c.path)
  \o (IF c.maxAge = "" THEN <<>> ELSE <<";", " ", "Max-Age", "=", c.maxAge>>)
  \o (IF c.sameSite = "" THEN <<>> ELSE <<";", " ", "SameSite", "=", c.sameSite>>)
  \o (IF c.secure THEN <<";", " ", "Secure">> ELSE <<>>)
  \o (IF c.httpOnly THEN <<";", " ", "HttpOnly">> ELSE <<>>)

-----------------------------------------------------------------------------
(* Splitting, as the browser and the server do it.                         *)

CkSplit(s, sep) ==
  LET at == SelectSeq([i \in 1..Len(s) |-> i], LAMBDA i : s[i] = sep)
      cuts == <<0>> \o at \o <<Len(s) + 1>>
  IN [k \in 1..(Len(at) + 1) |-> SubSeq(s, cuts[k] + 1, cuts[k + 1] - 1)]
CkTrim(s) ==
  LET solid == {i \in 1..Len(s) : s[i] # " "}
  IN IF solid = {} THEN <<>>
     ELSE SubSeq(s, CHOOSE i \in solid : \A j \in solid : i <= j,
                    CHOOSE i \in solid : \A j \in solid : i >= j)
\* The text before and after the first equals sign, if there is one.
CkPair(s) ==
  LET at == {i \in 1..Len(s) : s[i] = "="}
      eq == CHOOSE i \in at : \A j \in at : i <= j
  IN IF at = {} THEN <<s, <<>>>> ELSE <<SubSeq(s, 1, eq - 1), SubSeq(s, eq + 1, Len(s))>>

\* What a browser reads in a Set-Cookie header.
Received(text) ==
  LET parts == CkSplit(text, ";")
      pairs == [i \in 1..Len(parts) |-> CkPair(CkTrim(parts[i]))]
      attrs == {pairs[i] : i \in 2..Len(pairs)}
  IN [pair |-> pairs[1], attrs |-> attrs]
Has(r, attr) == \E a \in r.attrs : a[1] = <<attr>>
Attribute(r, attr) == {a[2] : a \in {b \in r.attrs : b[1] = <<attr>>}}

\* The cookie goes out (with_set_cookie) and replaces the one of its name; one
\* whose Max-Age is not positive only removes that.
SendCookie ==
  /\ ckCookie # NoCookie
  /\ LET text == HeaderValue(ckCookie)
         r == Received(text)
         others == SelectSeq(ckJar, LAMBDA k : k[1] # r.pair[1])
     IN /\ ckText' = [text |-> text, made |-> ckCookie.made] /\ ckCount' = ckCount + 1
        /\ ckJar' = IF Attribute(r, "Max-Age") \cap {<<"0">>, <<"-1">>} # {} THEN others
                    ELSE Append(others, r.pair)
  /\ ckCookie' = NoCookie /\ ckCalls' = 0
  /\ UNCHANGED <<ckSent, ckRead>>

-----------------------------------------------------------------------------
(* RequestHead::cookies                                                    *)

\* Mutation of CookiePair: the value ends at the next equals sign.
CutValue(seg) ==
  LET p == CkPair(seg)
      value == CkPair(p[2])[1]
  IN IF \/ ~ \E i \in 1..Len(seg) : seg[i] = "="
        \/ p[1] = <<>> \/ \E i \in 1..Len(p[1]) : ~Tchar(p[1][i])
        \/ \E i \in 1..Len(value) : ~CookieOctet(value[i])
     THEN <<>> ELSE <<p[1], value>>
\* parse_cookie_pair, <<>> for its error
CookiePair(seg) ==
  LET p == CkPair(seg)
      v == p[2]
      quoted == v # <<>> /\ v[1] = "quote"
      open == quoted /\ (Len(v) < 2 \/ v[Len(v)] # "quote")
      value == IF quoted /\ ~open THEN SubSeq(v, 2, Len(v) - 1) ELSE v
  IN IF \/ ~ \E i \in 1..Len(seg) : seg[i] = "="
        \/ p[1] = <<>> \/ \E i \in 1..Len(p[1]) : ~Tchar(p[1][i])
        \/ open \/ \E i \in 1..Len(value) : ~CookieOctet(value[i])
     THEN <<>> ELSE <<p[1], value>>

JoinedLength(headers) == Len(FlattenSeq(headers)) + 2 * (Len(headers) - 1)

\* Mutation of ReadCookies: the limits are applied to each header.
LimitEach(headers) ==
  LET segs == FlattenSeq([i \in 1..Len(headers) |->
                LET s == CkSplit(headers[i], ";") IN [k \in 1..Len(s) |-> CkTrim(s[k])]])
      pairs == [i \in 1..Len(segs) |-> CookiePair(segs[i])]
  IN IF headers = <<>> THEN [error |-> "", pairs |-> <<>>]
     ELSE IF \E i \in 1..Len(headers) : Len(headers[i]) > CkMaxBytes
            THEN [error |-> "CookieStringTooLarge", pairs |-> <<>>]
     ELSE IF \E i \in 1..Len(headers) : Len(CkSplit(headers[i], ";")) > CkMaxCount
            THEN [error |-> "TooManyCookies", pairs |-> <<>>]
     ELSE IF \E i \in 1..Len(pairs) : pairs[i] = <<>>
            THEN [error |-> "InvalidCookiePair", pairs |-> <<>>]
     ELSE [error |-> "", pairs |-> pairs]
\* Mutation of ReadCookies: what is no cookie is passed over.
SkipsBroken(headers) ==
  LET segs == FlattenSeq([i \in 1..Len(headers) |->
                LET s == CkSplit(headers[i], ";") IN [k \in 1..Len(s) |-> CkTrim(s[k])]])
      pairs == [i \in 1..Len(segs) |-> CookiePair(segs[i])]
  IN IF headers = <<>> THEN [error |-> "", pairs |-> <<>>]
     ELSE IF JoinedLength(headers) > CkMaxBytes THEN [error |-> "CookieStringTooLarge", pairs |-> <<>>]
     ELSE IF Len(segs) > CkMaxCount THEN [error |-> "TooManyCookies", pairs |-> <<>>]
     ELSE [error |-> "", pairs |-> SelectSeq(pairs, LAMBDA p : p # <<>>)]
\* The cookies of all Cookie headers together, or the error for them all.
ReadCookies(headers) ==
  LET segs == FlattenSeq([i \in 1..Len(headers) |->
                LET s == CkSplit(headers[i], ";") IN [k \in 1..Len(s) |-> CkTrim(s[k])]])
      pairs == [i \in 1..Len(segs) |-> CookiePair(segs[i])]
  IN IF headers = <<>> THEN [error |-> "", pairs |-> <<>>]
     ELSE IF JoinedLength(headers) > CkMaxBytes THEN [error |-> "CookieStringTooLarge", pairs |-> <<>>]
     ELSE IF Len(segs) > CkMaxCount THEN [error |-> "TooManyCookies", pairs |-> <<>>]
     ELSE IF \E i \in 1..Len(pairs) : pairs[i] = <<>>
            THEN [error |-> "InvalidCookiePair", pairs |-> <<>>]
     ELSE [error |-> "", pairs |-> pairs]

\* A browser returns its jar, in one header or with one header for each cookie.
JarText(jar) ==
  FlattenSeq([i \in 1..Len(jar) |->
    (IF i = 1 THEN <<>> ELSE <<";", " ">>) \o jar[i][1] \o <<"=">> \o jar[i][2]])
SendBack ==
  /\ ckRead = Nothing /\ ckCookie = NoCookie
  /\ \/ ckJar # <<>> /\ ckSent' = <<JarText(ckJar)>>
     \/ ckSent' = [i \in 1..Len(ckJar) |-> JarText(<<ckJar[i]>>)]
  /\ ckRead' = ReadCookies(ckSent')
  /\ UNCHANGED <<ckCookie, ckCalls, ckJar, ckText, ckCount>>

\* Any other client sends what it likes.
SendOther ==
  /\ ckRead = Nothing /\ ckCount = 0 /\ ckCookie = NoCookie
  /\ ckSent' \in CkRequests
  /\ ckRead' = ReadCookies(ckSent')
  /\ UNCHANGED <<ckCookie, ckCalls, ckJar, ckText, ckCount>>

CookiesInit ==
  /\ ckCookie = NoCookie /\ ckCalls = 0
  /\ ckJar = <<>> /\ ckText = [text |-> <<>>, made |-> "no"] /\ ckCount = 0
  /\ ckSent = <<>> /\ ckRead = Nothing

CookiesNext ==
  Construct \/ SetAttribute \/ SendCookie \/ SendBack \/ SendOther

-----------------------------------------------------------------------------
(* Properties                                                              *)

\* Whatever attributes are set after it is made, and in whatever order, a
\* cookie goes out as browsers demand of its name: __Host- with Secure and
\* the path / and no other, __Secure- with Secure, in any case of the letters;
\* SameSite=None never without Secure; a session cookie Secure and HttpOnly
\* with a SameSite; and no attribute comes from a name, a value or a path that
\* was passed in (SetCookie).
CookieRules ==
  ckCount > 0 =>
    LET r == Received(ckText.text)
        first == r.pair[1][1]
    IN /\ first \in HostPrefixes => Has(r, "Secure") /\ Attribute(r, "Path") = {<<"/">>}
       /\ first \in SecurePrefixes => Has(r, "Secure")
       /\ Attribute(r, "SameSite") = {<<"None">>} => Has(r, "Secure")
       /\ ckText.made \in {"session", "removal"} =>
            Has(r, "Secure") /\ Has(r, "HttpOnly") /\ Has(r, "SameSite")
       /\ \A a \in r.attrs : a[1] \in {<<x>> : x \in {"Path", "Max-Age", "SameSite", "Secure", "HttpOnly"}}
       /\ \A x \in {"Path", "Max-Age", "SameSite"} : Cardinality(Attribute(r, x)) <= 1
       /\ "ctl" \notin ToSet(ckText.text)

\* The headers as one text, and its parts between the semicolons.
Joined(headers) ==
  FlattenSeq([i \in 1..Len(headers) |-> (IF i = 1 THEN <<>> ELSE <<";", " ">>) \o headers[i]])
Semicolons(text, n) == Cardinality({i \in 1..n : text[i] = ";"})
PartOf(text, k) ==
  LET at == {i \in 1..Len(text) : text[i] # ";" /\ Semicolons(text, i) = k - 1}
  IN IF at = {} THEN <<>> ELSE SubSeq(text, Min(at), Max(at))

\* The cookies that a part spells, one or none: a name, an equals sign and a
\* value, which may be in quotes, with spaces around it all.
Written(pair, before, quotes, after) ==
  LET blanks(n) == [i \in 1..n |-> " "]
      q == [i \in 1..quotes |-> "quote"]
  IN blanks(before) \o pair[1] \o <<"=">> \o q \o pair[2] \o q \o blanks(after)
Spelled(part) ==
  LET n == Len(part)
      pairs == UNION {{<<SubSeq(part, b + 1, e - 1), SubSeq(part, e + 1 + q, n - a - q)>> :
                         a, b \in 0..n, q \in 0..1} : e \in {i \in 1..n : part[i] = "="}}
  IN {p \in pairs : /\ NameValueOk(p[1], p[2])
                    /\ \E a, b \in 0..n, q \in 0..1 : part = Written(p, b, q, a)}

\* Whoever sends them, all cookies of a request are read or none: the limits
\* are those of the headers joined to one, each part between semicolons is one
\* cookie, in its place, and one part that is none, an empty one among them,
\* fails the request; it is never passed over (cookies, parse_cookie_pair).
CookiesRead ==
  ckRead # Nothing =>
    LET text == Joined(ckSent)
        parts == 1 + Semicolons(text, Len(text))
        error == IF ckSent = <<>> THEN ""
                 ELSE IF Len(text) > CkMaxBytes THEN "CookieStringTooLarge"
                 ELSE IF parts > CkMaxCount THEN "TooManyCookies"
                 ELSE IF \E k \in 1..parts : Spelled(PartOf(text, k)) = {} THEN "InvalidCookiePair"
                 ELSE ""
    IN /\ ckRead.error = error
       /\ Len(ckRead.pairs) = IF ckSent = <<>> \/ error # "" THEN 0 ELSE parts
       /\ \A k \in 1..Len(ckRead.pairs) : ckRead.pairs[k] \in Spelled(PartOf(text, k))

\* A cookie that was set is read back with its name and value, whatever the
\* browser splits its jar into, unless the jar as a whole exceeds the limits
\* (to_header_value, cookies).
CookiesReturn ==
  ckCount > 0 /\ ckRead # Nothing /\ ckJar # <<>> =>
    LET big == Len(JarText(ckJar)) > CkMaxBytes \/ Len(ckJar) > CkMaxCount
    IN IF big THEN ckRead.error \in {"CookieStringTooLarge", "TooManyCookies"}
       ELSE ckRead = [error |-> "", pairs |-> ckJar]

\* Cookies leave as browsers demand, come back as they left, and what comes is
\* read as a whole (SetCookie, RequestHead::cookies).
CookiesSound == CookieRules /\ CookiesReturn /\ CookiesRead
=============================================================================
