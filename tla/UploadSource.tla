---------------------------- MODULE UploadSource ----------------------------
(***************************************************************************)
(* Where upload takes a file from, up to the call that writes it: an http  *)
(* URL (downloadFile), a data URI (parseDataURI) or a local file, and the  *)
(* extension that the file's name gets (package mimetype).                 *)
(*                                                                         *)
(* A URL's file that has no extension, and no Content-Type that gives one, *)
(* is told by its first bytes: one Read of the body, which may deliver     *)
(* fewer bytes than it was asked for.  The bytes are put back in front of  *)
(* the rest.                                                               *)
(*                                                                         *)
(* A body is its format and its size; what was received of it is the       *)
(* sequence of the intervals of its bytes.                                 *)
(***************************************************************************)
EXTENDS Naturals, Sequences, FiniteSetsExt

CONSTANTS
    PeekSize,     \* 512 bytes
    ReadSizes,    \* how many bytes the first Read can deliver
    Bodies,       \* the bodies of files
    MediaTypes,   \* media types
    MediaExt,     \* the extension that mimeToExt or the mime package has for one, or ""
    Payloads,     \* what a data URI can have behind its comma when it is base64
    Unset         \* a header that is missing

Formats == {"pdf", "office", "png", "jpeg", "gif", "xml", "html", "json", "text", "binary"}

Ext == [pdf |-> ".pdf", office |-> ".docx", png |-> ".png", jpeg |-> ".jpg", gif |-> ".gif",
        xml |-> ".xml", html |-> ".html", json |-> ".json", text |-> ".txt", binary |-> ""]

(* `told': how many bytes of an Office document it takes to reach the name *)
(* of the directory that tells the zip file's kind, and of another format  *)
(* to reach the end of its signature.                                      *)
Body == [format : Formats, size : Nat, told : Nat]

(* Base64 text: the alphabet of which it uses digits that the other does   *)
(* not have, the number of digits and that of padding characters.          *)
Payload == [alphabet : {"either", "standard", "url", "mixed"}, digits : Nat, padding : Nat]

ASSUME UploadSourceAssumption ==
    /\ PeekSize \in Nat /\ ReadSizes \subseteq Nat
    /\ Bodies \subseteq Body
    /\ DOMAIN MediaExt = MediaTypes
    /\ Payloads \subseteq Payload

\* The extensions of the name in the URL and of the one in Content-Disposition.
HTTPSource == [scheme : {"http"}, url_ext : {"", ".dat"},
               disposition_ext : {Unset, "", ".dat"},
               content_type : MediaTypes \cup {Unset}, body : Bodies]
DataSource == [scheme : {"data"}, media : MediaTypes, base64 : {TRUE}, payload : Payloads]
                \cup [scheme : {"data"}, media : MediaTypes, base64 : {FALSE}, body : Bodies]
RawSource  == [scheme : {"raw"}, body : Bodies]     \* data: without a comma
FileSource == [scheme : {"file"}, body : Bodies]
Sources    == HTTPSource \cup DataSource \cup RawSource \cup FileSource

VARIABLES
    source,      \* what is uploaded
    upload,      \* the next step, "write" when the content goes to the sandbox
    peeked,      \* how many bytes the first Read delivered
    received,    \* the content so far
    extension,   \* what is appended to the name, or stands in it
    disturbed    \* history: reading the source failed

uploadVars == <<source, upload, peeked, received, extension, disturbed>>

-----------------------------------------------------------------------------
UploadInit ==
    /\ source \in Sources
    /\ upload = "begin"
    /\ peeked = 0
    /\ received = <<>>
    /\ extension = ""
    /\ disturbed = FALSE

Whole(body) == <<<<1, body.size>>>>

(* DetectFromContent for the first n bytes of a body.  What is too short   *)
(* for its signature passes for text, whose control characters are few.    *)
Detected(body, n) ==
    CASE n < 4 \/ body.format = "binary"                    -> ""
      [] n >= 4 /\ body.format = "office" /\ n < Max({30, body.told}) -> ".zip"
      [] n >= 4 /\ body.format \notin {"office", "binary"} /\ n < body.told -> ".txt"
      [] OTHER                                              -> Ext[body.format]

\* ExtensionFromContentType
FromContentType(type) == IF type = Unset THEN "" ELSE MediaExt[type]

\* ExtensionFromMediaType
FromMediaType(type) == IF FromContentType(type) = "" THEN ".bin" ELSE FromContentType(type)

\* The extension of the file name that downloadFile chooses.
NamedExt(s) == IF s.disposition_ext = Unset THEN s.url_ext ELSE s.disposition_ext

\* Mutant: three of the four decoders.
DecodersButRawURL == [alphabet : {"standard"}, padded : BOOLEAN]
                       \cup [alphabet : {"url"}, padded : {TRUE}]

(* The decoders that parseDataURI tries: StdEncoding, RawStdEncoding,      *)
(* URLEncoding and RawURLEncoding.                                         *)
Decoders == [alphabet : {"standard", "url"}, padded : BOOLEAN]

\* What decoder d of encoding/base64 accepts.
Decodes(d, p) ==
    /\ p.alphabet \in {"either", d.alphabet}
    /\ p.digits % 4 # 1
    /\ p.padding = IF d.padded THEN (4 - (p.digits % 4)) % 4 ELSE 0

-----------------------------------------------------------------------------
Proceed(label) == upload' = label /\ UNCHANGED <<source, peeked, disturbed>>

(* downloadFile: the response, and the name.  The content is looked at     *)
(* only when neither the name nor the header has an extension.             *)
Download ==
    /\ upload = "begin" /\ source.scheme = "http"
    /\ \/ /\ NamedExt(source) # ""
          /\ extension' = NamedExt(source)
          /\ Proceed("read")
       \/ /\ NamedExt(source) = "" /\ FromContentType(source.content_type) # ""
          /\ extension' = FromContentType(source.content_type)
          /\ Proceed("read")
       \/ /\ NamedExt(source) = "" /\ FromContentType(source.content_type) = ""
          /\ Proceed("peek") /\ UNCHANGED extension
    /\ UNCHANGED received

\* Mutant: the whole buffer is looked at, with the zeros that no byte replaced.
PeekWholeBuffer(n) ==
    LET text == 10 * (PeekSize - n) < 3 * PeekSize IN
    /\ upload = "peek" /\ n <= Min({PeekSize, source.body.size})
    /\ upload' = "read"
    /\ peeked' = n
    /\ received' = IF n = 0 THEN <<>> ELSE <<<<1, n>>>>
    /\ extension' = IF source.body.format = "text" /\ ~ text THEN "" ELSE Detected(source.body, n)
    /\ UNCHANGED <<source, disturbed>>

\* Mutant: the bytes that were looked at are not put back.
PeekAndDrop(n) ==
    /\ upload = "peek" /\ n <= Min({PeekSize, source.body.size})
    /\ upload' = "read"
    /\ peeked' = n
    /\ extension' = Detected(source.body, n)
    /\ UNCHANGED <<source, received, disturbed>>

(* DetectExtensionFromContentType: one Read, of n bytes; they are put back *)
(* in front of the body.                                                   *)
Peek(n) ==
    /\ upload = "peek" /\ n <= Min({PeekSize, source.body.size})
    /\ upload' = "read"
    /\ peeked' = n
    /\ received' = IF n = 0 THEN <<>> ELSE <<<<1, n>>>>
    /\ extension' = Detected(source.body, n)
    /\ UNCHANGED <<source, disturbed>>

(* A local file is opened; its name has an extension or none.              *)
Open ==
    /\ upload = "begin" /\ source.scheme = "file"
    /\ extension' \in {"", ".dat"}
    /\ Proceed("read")
    /\ UNCHANGED received

(* io.ReadAll of a download or of a local file: what is left of it.        *)
ReadAll ==
    /\ upload = "read"
    /\ received' = Append(received, <<peeked + 1, source.body.size>>)
    /\ Proceed("write")
    /\ UNCHANGED extension

(* The request, the status, the first Read, the open or the rest of the    *)
(* body is an error.                                                       *)
ReadFails ==
    /\ upload \in {"begin", "peek", "read"} /\ source.scheme \in {"http", "file"}
    /\ upload' = "refused"
    /\ disturbed' = TRUE
    /\ UNCHANGED <<source, peeked, received, extension>>

(* parseDataURI.  The length of the decoded text stands for its bytes.     *)
ParseDataURI ==
    /\ upload = "begin" /\ source.scheme \in {"data", "raw"}
    /\ \/ /\ source.scheme = "raw"
          /\ received' = Whole(source.body)
          /\ extension' = ".txt"
          /\ Proceed("write")
       \/ /\ source.scheme = "data" /\ ~ source.base64
          /\ received' = Whole(source.body)
          /\ extension' = FromMediaType(source.media)
          /\ Proceed("write")
       \/ /\ source.scheme = "data" /\ source.base64
          /\ \E d \in Decoders : Decodes(d, source.payload)
          /\ received' = <<<<1, (source.payload.digits * 6) \div 8>>>>
          /\ extension' = FromMediaType(source.media)
          /\ Proceed("write")
       \/ /\ source.scheme = "data" /\ source.base64
          /\ \A d \in Decoders : ~ Decodes(d, source.payload)
          /\ Proceed("refused") /\ UNCHANGED <<received, extension>>

UploadNext ==
    \/ Download \/ Open \/ ReadAll \/ ReadFails \/ ParseDataURI
    \/ \E n \in ReadSizes : Peek(n)

UploadSpec == UploadInit /\ [][UploadNext]_uploadVars

-----------------------------------------------------------------------------
(* Base64 text is well formed when it is the encoding of some number of    *)
(* bytes in one of the two alphabets, with its padding or without.         *)
WellFormed(p) ==
    /\ p.alphabet # "mixed"
    /\ \E bytes \in 0 .. p.digits :
          /\ p.digits = (bytes * 8 + 5) \div 6
          /\ p.padding \in {0, ((bytes + 2) \div 3) * 4 - p.digits}

(* What goes to the sandbox is the source's content, every byte once and   *)
(* in order, however many the first Read delivered; and a source is not    *)
(* refused unless reading it failed or its base64 is malformed.            *)
ReceivedWhole ==
    /\ upload = "write" /\ "body" \in DOMAIN source =>
          /\ received[1][1] = 1 /\ received[Len(received)][2] = source.body.size
          /\ \A i \in 1 .. Len(received) - 1 : received[i + 1][1] = received[i][2] + 1
    /\ source.scheme = "data" /\ source.base64 =>
          /\ upload = "write" => WellFormed(source.payload)
          /\ upload = "refused" => ~ WellFormed(source.payload)
    /\ upload = "refused" => disturbed \/ source.scheme = "data"

(* A download without an extension in its name or its header gets that of  *)
(* its format if the first Read delivered all it was asked for and the     *)
(* format can be told from that; a shorter Read can make it a generic one, *)
(* never that of another format.                                           *)
ExtensionFits ==
    upload = "write" /\ source.scheme = "http" /\ NamedExt(source) = ""
        /\ FromContentType(source.content_type) = "" =>
        LET body   == source.body
            asked  == Min({PeekSize, body.size})
            needed == IF body.format = "office" THEN Max({30, body.told}) ELSE Max({4, body.told})
        IN  /\ extension \in {Ext[body.format], "", ".txt"}
                  \cup IF body.format = "office" THEN {".zip"} ELSE {}
            /\ peeked = asked /\ needed <= asked => extension = Ext[body.format]
=============================================================================
