----------------------------- MODULE RequestFile -----------------------------
(* A .http file and the request read from it. A file is a sequence of lines   *)
(* [text, end]: `text' is what the parser makes of the line, `end' how it     *)
(* ends ("none": the file ends in it). The bytes are split into a header      *)
(* block and a body before any line is looked at.                             *)
EXTENDS Naturals, Sequences, FiniteSets, SequencesExt, FiniteSetsExt

\* A line: empty, a comment, a request line with a path or with a URL (of host
\* "a" or "b"), a Host header (of the same), another header, or something else.
Line(text, end) == [text |-> text, end |-> end]
Relative == {"GET /"}
UrlHosts == [a |-> "GET http://a/", b |-> "GET http://b/"]
HostHeaders == [a |-> "Host: a", b |-> "Host: b"]
Absolute == {UrlHosts[h] : h \in DOMAIN UrlHosts}
HasColon(line) == line.text \in {HostHeaders[h] : h \in DOMAIN HostHeaders} \cup Absolute \cup {"Header"}
Skipped(line) == line.text \in {"", "comment"}

\* find_header_body_split: the header block ends before the first empty line
\* that ends with CRLF after another such line end, wherever that is; without
\* one, before the first that ends with LF. The position of the empty line, or
\* that after the last.
EmptyAfter(file, ends, end) ==
  {i \in 2..Len(file) : file[i] = Line("", end) /\ file[i - 1].end \in ends}
Split(file) ==
  LET crlf == EmptyAfter(file, {"crlf"}, "crlf")
      lf == EmptyAfter(file, {"lf", "crlf"}, "lf")
  IN IF crlf # {} THEN Min(crlf) ELSE Min(lf \cup {Len(file) + 1})

\* The lines of the block that are neither empty nor comments: the request line
\* and the header fields.
Block(file) == SelectSeq(SubSeq(file, 1, Split(file) - 1), LAMBDA line : ~Skipped(line))
RequestLine(file) == IF Block(file) = <<>> THEN "" ELSE Block(file)[1].text
Fields(file) == SubSeq(Block(file), 2, Len(Block(file)))

\* Without an empty line, bytes after the last line end may be meant as a body.
Unfinished(file) ==
  /\ Split(file) > Len(file) /\ Fields(file) # <<>>
  /\ Last(file).end = "none" /\ Last(file).text # ""

\* The host is that of the request line, or of the last Host header.
HostOf(file) ==
  LET stated == {h \in DOMAIN UrlHosts : UrlHosts[h] = RequestLine(file)}
      hosts == SelectSeq(Fields(file), LAMBDA line : \E h \in DOMAIN HostHeaders : line.text = HostHeaders[h])
  IN IF stated # {} \/ hosts = <<>> THEN stated
     ELSE {CHOOSE h \in DOMAIN HostHeaders : HostHeaders[h] = Last(hosts).text}

\* parse_request_bytes: the first check that fails. A template that does not
\* compile, or a host that is none, is left out.
Checks(file) ==
  <<<<"Empty", file = <<>>>>,
    <<"MissingRequestLine", Block(file) = <<>>>>,
    <<"InvalidRequestLine", RequestLine(file) \notin Relative \cup Absolute>>,
    <<"MalformedHeader", \E i \in DOMAIN Fields(file) : ~HasColon(Fields(file)[i])>>,
    <<"MissingBlankLine", Unfinished(file)>>,
    <<"MissingHost", HostOf(file) = {}>>>>
Failures(file) == SelectSeq(Checks(file), LAMBDA check : check[2])

ParseRequest(file) ==
  [error |-> IF Failures(file) = <<>> THEN "none" ELSE Failures(file)[1][1],
   host |-> HostOf(file), fields |-> Fields(file),
   body |-> SubSeq(file, Split(file) + 1, Len(file))]

-----------------------------------------------------------------------------
(* Properties *)

\* One kind of line end, comments only before the request line, a request line,
\* and the end of the header block on a line of its own.
Plain(file) ==
  /\ \E end \in {"lf", "crlf"} : \A i \in DOMAIN file : file[i].end \in {end, "none"}
  /\ \E r \in DOMAIN file : /\ file[r].text \in Relative \cup Absolute
                            /\ \A i \in 1..(r - 1) : file[i].text = "comment"
  /\ \E i \in DOMAIN file : file[i].text = "" /\ file[i].end # "none"

(* "#" starts a comment in the header area only; the first blank line ends    *)
(* it; the rest of the file is the body, blank lines and all: so is the       *)
(* request read from a plain file, and one that has only headers in its       *)
(* header area and a host is refused by no check.                             *)
ReadAsWritten(file, parsed) ==
  Plain(file) =>
    LET blank == Min({i \in DOMAIN file : file[i].text = ""})
        area == SelectSeq(SubSeq(file, 1, blank - 1), LAMBDA line : line.text # "comment")
        hosts == {h \in DOMAIN UrlHosts : UrlHosts[h] = area[1].text
                                          \/ \E i \in DOMAIN area : area[i].text = HostHeaders[h]}
    IN /\ parsed.error = "none" =>
            /\ parsed.body = SubSeq(file, blank + 1, Len(file)) /\ parsed.fields = Tail(area)
            /\ parsed.host \subseteq hosts
       /\ (\A i \in 2..Len(area) : HasColon(area[i])) /\ hosts # {} => parsed.error = "none"

=============================================================================
