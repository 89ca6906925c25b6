---------------------------- MODULE ImageParser ----------------------------
(***************************************************************************)
(* The two parsers of session images, event by event: the v0 parser        *)
(* (session.rs, mod parse), and SessionImageV1::from_xml (galois.rs),      *)
(* which reads the document once with the v0 parser and once more for the  *)
(* coefficients, and then validates the pair.                              *)
(*                                                                         *)
(* A behaviour reads one document.  The document was written from source,  *)
(* in the v0 or the v1 format, and may have been damaged since.            *)
(***************************************************************************)
EXTENDS ImageDocument

CONSTANTS
  Sources,         \* v1 images that documents are written from
  DamagedSources   \* those whose documents are also read damaged

CONSTANT Blank     \* the empty text

\* an image is written with its content address, which is all that is ever
\* declared as its id (new leaves it unset, with_computed_id sets it)
ASSUME ParserAssumption ==
  /\ Sources \subseteq ImageV1
  /\ \A x \in Sources : x.base.id \in {None, ComputeId(x.base)}
  /\ DamagedSources \subseteq Sources
  /\ {Unknown, Blank} \subseteq Texts
  /\ Trim[Unknown] = Unknown /\ Trim[Blank] = Blank
  /\ {Unknown, Blank} \cap (OsNames \cup CodecNames) = {}

VARIABLES
  source,          \* what the document was written from
  reader,          \* "v0" or "v1", the parser that is called
  doc,             \* the events of the document
  pos,             \* the next one
  phase,           \* "base", "coefficients", "accepted" or "rejected"
  \* the v0 parser
  session,         \* session_attrs
  surfaces,        \* finished surfaces
  layout,          \* [scroll, focus]
  surface,         \* cur_surface: the builder, or None
  inHost,          \* in_host
  target,          \* text_target: an element name, or None
  buf,             \* text_buf
  image,           \* the parsed base, once its pass is over
  \* the coefficient parser
  inCoefficients,  \* in_coeffs
  entry,           \* cur: the builder, or None
  coefficients     \* finished entries

documentVars == <<source, reader, doc>>
baseVars == <<session, surfaces, layout, surface, inHost, target, buf, image>>
coefficientVars == <<inCoefficients, entry, coefficients>>
vars == <<documentVars, pos, phase, baseVars, coefficientVars>>

Written == {ToXml(source.base), ToXmlV1(source)}

Init ==
  /\ source \in Sources
  /\ reader \in {"v0", "v1"}
  /\ \/ doc \in Written
     \/ source \in DamagedSources /\ \E d \in Written : doc \in Damaged(d)
  /\ pos = 1
  /\ phase = "base"
  /\ session = [id |-> None, created |-> None, schema |-> 1]
  /\ surfaces = <<>>
  /\ layout = [scroll |-> 0, focus |-> None]
  /\ surface = None
  /\ inHost = FALSE
  /\ target = None
  /\ buf = Blank
  /\ image = None
  /\ inCoefficients = FALSE
  /\ entry = None
  /\ coefficients = <<>>

(***************************************************************************)
(* Taking the next event of a kind, and what the parsers ask of attributes.*)
(***************************************************************************)
Event == doc[pos]

Takes(pass, kinds) ==
  /\ phase = pass
  /\ pos <= Len(doc)
  /\ Event.kind \in kinds
  /\ pos' = pos + 1
  /\ UNCHANGED <<documentVars, phase>>

Start == {"open", "empty"}

Has(attrs) == attrs \subseteq DOMAIN Event.attrs
Knows(attrs) == Has(attrs) /\ \A a \in attrs : Event.attrs[a] # Unknown

Attribute(a, default) == IF a \in DOMAIN Event.attrs THEN Event.attrs[a] ELSE default

(***************************************************************************)
(* The v0 parser.  Every start tag empties the text buffer.                *)
(***************************************************************************)
BaseStart(el) ==
  /\ Takes("base", Start)
  /\ Event.el = el
  /\ buf' = Blank
  /\ UNCHANGED <<image, coefficientVars>>

StartSession ==
  /\ BaseStart("session")
  /\ Attribute("schemaVersion", 1) # Unknown
  /\ session' = [id      |-> Attribute("id", None),
                 created |-> Attribute("created", None),
                 schema  |-> Attribute("schemaVersion", 1)]
  /\ UNCHANGED <<surfaces, layout, surface, inHost, target>>

StartSurface ==
  /\ BaseStart("surface")
  /\ Knows({"id", "order"}) /\ Has({"name"})
  /\ surface' = [id |-> Event.attrs.id, name |-> Event.attrs.name,
                 order |-> Event.attrs.order, text |-> <<>>, size |-> None]
  /\ UNCHANGED <<session, surfaces, layout, inHost, target>>

StartHost ==
  /\ BaseStart("host")
  /\ inHost' = TRUE
  /\ UNCHANGED <<session, surfaces, layout, surface, target>>

StartText ==
  /\ \E el \in TextElements : BaseStart(el)
  /\ target' = Event.el
  /\ UNCHANGED <<session, surfaces, layout, surface, inHost>>

StartDimensions ==
  /\ BaseStart("dimensions")
  /\ surface # None
  /\ Knows({"width", "height"})
  /\ surface' = [surface EXCEPT !.size = Event.attrs]
  /\ UNCHANGED <<session, surfaces, layout, inHost, target>>

StartStrip ==
  /\ BaseStart("strip")
  /\ Knows({"scrollPos"})
  /\ layout' = [layout EXCEPT !.scroll = Event.attrs.scrollPos]
  /\ UNCHANGED <<session, surfaces, surface, inHost, target>>

\* fault: whatever refers to a surface sets the focus
StartReference ==
  /\ \E el \in {"focus", "surface-coefficient"} : BaseStart(el)
  /\ Knows({"surfaceRef"})
  /\ layout' = [layout EXCEPT !.focus = Event.attrs.surfaceRef]
  /\ UNCHANGED <<session, surfaces, surface, inHost, target>>

StartFocus ==
  /\ BaseStart("focus")
  /\ Knows({"surfaceRef"})
  /\ layout' = [layout EXCEPT !.focus = Event.attrs.surfaceRef]
  /\ UNCHANGED <<session, surfaces, surface, inHost, target>>

\* every other element, those of the coefficient block among them
StartOther ==
  /\ \E el \in {"surfaces", "layout", "coefficients", "surface-coefficient",
                "timing", "delay-path", "security", "linearity"} : BaseStart(el)
  /\ UNCHANGED <<session, surfaces, layout, surface, inHost, target>>

\* the reader has trimmed the text; an element holds one text event at most
TakeText ==
  /\ Takes("base", {"text"})
  /\ buf' = IF target = None THEN buf ELSE Trim[Event.text]
  /\ UNCHANGED <<session, surfaces, layout, surface, inHost, target, image,
                 coefficientVars>>

BaseEnd(els) ==
  /\ Takes("base", {"close"})
  /\ Event.el \in els
  /\ UNCHANGED <<session, layout, image, coefficientVars>>

EndHost ==
  /\ BaseEnd({"host"})
  /\ inHost' = FALSE
  /\ UNCHANGED <<surfaces, surface, target, buf>>

\* fault: only the dimensions are asked for
HasSize(b) == b.size # None

Complete(b) == DOMAIN b.text = TextElements /\ b.size # None

Built(b) == [id |-> b.id, name |-> b.name, order |-> b.order, text |-> b.text,
             width |-> b.size.width, height |-> b.size.height]

EndSurface ==
  /\ BaseEnd({"surface"})
  /\ surface # None
  /\ Complete(surface)
  /\ surfaces' = Append(surfaces, Built(surface))
  /\ surface' = None
  /\ UNCHANGED <<inHost, target, buf>>

\* apply_text: the host's texts count inside <host> only
Applies == target # None /\ (target \in HostElements => inHost)

\* os_from_str and codec_from_str
Spelt == /\ target = "os" => buf \in OsNames
         /\ target = "codec" => buf \in CodecNames

WithText(b, el, t) ==
  [b EXCEPT !.text = [e \in DOMAIN b.text \cup {el} |-> IF e = el THEN t ELSE b.text[e]]]

EndText ==
  /\ BaseEnd(TextElements)
  /\ surface # None
  /\ Applies => Spelt
  /\ surface' = IF Applies THEN WithText(surface, target, buf) ELSE surface
  /\ target' = None
  /\ buf' = Blank
  /\ UNCHANGED <<surfaces, inHost>>

EndOther ==
  /\ BaseEnd({"session", "surfaces", "layout", "coefficients",
              "surface-coefficient", "timing"})
  /\ UNCHANGED <<surfaces, surface, inHost, target, buf>>

\* the end of the document, whatever is still open
BaseEof ==
  /\ phase = "base"
  /\ pos = Len(doc) + 1
  /\ session.created # None
  /\ image' = [id   |-> session.id,
               body |-> [created  |-> session.created,
                         schema   |-> session.schema,
                         surfaces |-> SortedByOrder(surfaces),
                         scroll   |-> layout.scroll,
                         focus    |-> layout.focus]]
  /\ IF reader = "v0"
     THEN phase' = "accepted" /\ UNCHANGED pos
     ELSE phase' = "coefficients" /\ pos' = 1
  /\ UNCHANGED <<documentVars, session, surfaces, layout, surface, inHost, target,
                 buf, coefficientVars>>

BaseRefusesStart ==
  \/ Event.el = "session" /\ Attribute("schemaVersion", 1) = Unknown
  \/ Event.el = "surface" /\ ~ (Knows({"id", "order"}) /\ Has({"name"}))
  \/ Event.el = "dimensions" /\ (surface = None \/ ~ Knows({"width", "height"}))
  \/ Event.el = "strip" /\ ~ Knows({"scrollPos"})
  \/ Event.el = "focus" /\ ~ Knows({"surfaceRef"})

BaseRefusesEnd ==
  \/ Event.el = "surface" /\ (surface = None \/ ~ Complete(surface))
  \/ Event.el \in TextElements /\ (surface = None \/ (Applies /\ ~ Spelt))

BaseFails ==
  /\ phase = "base"
  /\ IF pos > Len(doc) THEN session.created = None
     ELSE \/ Event.kind \in Start /\ BaseRefusesStart
          \/ Event.kind = "close" /\ BaseRefusesEnd
  /\ phase' = "rejected"
  /\ UNCHANGED <<documentVars, pos, baseVars, coefficientVars>>

(***************************************************************************)
(* The coefficient parser.  What is outside <coefficients> is ignored.     *)
(***************************************************************************)
BlockElements == {"surface-coefficient", "delay-path", "security", "linearity"}

BlockStart(el) ==
  /\ Takes("coefficients", Start)
  /\ Event.el = el
  /\ UNCHANGED <<baseVars, coefficients>>

StartCoefficients ==
  /\ BlockStart("coefficients")
  /\ inCoefficients' = TRUE
  /\ UNCHANGED entry

StartEntry ==
  /\ BlockStart("surface-coefficient")
  /\ inCoefficients /\ Knows({"surfaceRef"})
  /\ entry' = [ref |-> Event.attrs.surfaceRef, timing |-> <<>>,
               confidentiality |-> None, integrity |-> None, linearity |-> None]
  /\ UNCHANGED inCoefficients

StartDelayPath ==
  /\ BlockStart("delay-path")
  /\ inCoefficients /\ entry # None /\ Knows({"lo", "hi"})
  /\ entry' = [entry EXCEPT !.timing = Append(@, Event.attrs)]
  /\ UNCHANGED inCoefficients

StartSecurity ==
  /\ BlockStart("security")
  /\ inCoefficients /\ entry # None /\ Knows({"confidentiality", "integrity"})
  /\ entry' = [entry EXCEPT !.confidentiality = Event.attrs.confidentiality,
                            !.integrity = Event.attrs.integrity]
  /\ UNCHANGED inCoefficients

StartLinearity ==
  /\ BlockStart("linearity")
  /\ inCoefficients /\ entry # None /\ Knows({"count"})
  /\ entry' = [entry EXCEPT !.linearity = Event.attrs.count]
  /\ UNCHANGED inCoefficients

EndCoefficients ==
  /\ Takes("coefficients", {"close"})
  /\ Event.el = "coefficients"
  /\ inCoefficients' = FALSE
  /\ UNCHANGED <<baseVars, entry, coefficients>>

\* fault: only the timing is asked for
GradedInTime(e) == e.timing # <<>>

Graded(e) ==
  /\ e.timing # <<>>
  /\ None \notin {e.confidentiality, e.integrity, e.linearity}

EndEntry ==
  /\ Takes("coefficients", {"close"})
  /\ Event.el = "surface-coefficient"
  /\ entry # None => Graded(entry)
  /\ coefficients' =
       IF entry = None THEN coefficients
       ELSE Append(coefficients,
              [surfaceRef  |-> entry.ref,
               coefficient |-> [timing          |-> entry.timing,
                                confidentiality |-> entry.confidentiality,
                                integrity       |-> entry.integrity,
                                linearity       |-> entry.linearity]])
  /\ entry' = None
  /\ UNCHANGED <<baseVars, inCoefficients>>

Ignored ==
  \/ Event.kind = "text"
  \/ Event.kind \in Start /\ Event.el \notin BlockElements \cup {"coefficients"}
  \/ Event.kind \in Start /\ Event.el \in BlockElements /\ ~ inCoefficients
  \/ Event.kind = "close" /\ Event.el \notin {"coefficients", "surface-coefficient"}

Ignore ==
  /\ Takes("coefficients", Start \cup {"text", "close"})
  /\ Ignored
  /\ UNCHANGED <<baseVars, coefficientVars>>

BlockRefusesStart ==
  /\ inCoefficients
  /\ \/ Event.el = "surface-coefficient" /\ ~ Knows({"surfaceRef"})
     \/ Event.el \in BlockElements \ {"surface-coefficient"} /\ entry = None
     \/ Event.el = "delay-path" /\ ~ Knows({"lo", "hi"})
     \/ Event.el = "security" /\ ~ Knows({"confidentiality", "integrity"})
     \/ Event.el = "linearity" /\ ~ Knows({"count"})

BlockRefusesEnd ==
  /\ Event.el = "surface-coefficient"
  /\ entry # None
  /\ ~ Graded(entry)

BlockFails ==
  /\ phase = "coefficients"
  /\ pos <= Len(doc)
  /\ \/ Event.kind \in Start /\ BlockRefusesStart
     \/ Event.kind = "close" /\ BlockRefusesEnd
  /\ phase' = "rejected"
  /\ UNCHANGED <<documentVars, pos, baseVars, coefficientVars>>

ParsedV1 == [base |-> image, coefficients |-> coefficients]

\* the end of the second pass, and SessionImageV1::validate
BlockEof ==
  /\ phase = "coefficients"
  /\ pos = Len(doc) + 1
  /\ phase' = IF Validate(ParsedV1) THEN "accepted" ELSE "rejected"
  /\ UNCHANGED <<documentVars, pos, baseVars, coefficientVars>>

BaseNext ==
  \/ StartSession \/ StartSurface \/ StartHost \/ StartText \/ StartDimensions
  \/ StartStrip \/ StartFocus \/ StartOther
  \/ TakeText
  \/ EndHost \/ EndSurface \/ EndText \/ EndOther
  \/ BaseEof \/ BaseFails

BlockNext ==
  \/ StartCoefficients \/ StartEntry \/ StartDelayPath \/ StartSecurity
  \/ StartLinearity \/ EndCoefficients \/ EndEntry \/ Ignore
  \/ BlockEof \/ BlockFails

Done == phase \in {"accepted", "rejected"}

\* the parser has returned
Returned == Done /\ UNCHANGED vars

Next == BaseNext \/ BlockNext \/ Returned

Spec == Init /\ [][Next]_vars

-----------------------------------------------------------------------------
(***************************************************************************)
(* Properties.                                                             *)
(***************************************************************************)
Builder ==
  [id : SurfaceIds, name : Texts, order : Nat,
   text : UNION {[E -> Texts] : E \in SUBSET TextElements},
   size : [width : Nat, height : Nat] \cup {None}]

EntryBuilder ==
  [ref : SurfaceIds, timing : Seq(Interval),
   confidentiality : Confidentiality \cup {None},
   integrity : Integrity \cup {None}, linearity : Linearity \cup {None}]

\* what the v0 parser returns: the id is whatever the document declares
ReadImage == [id : Body \cup {None, Unknown}, body : Body]

\* an Option is not confused with what it may hold, and a misspelt attribute
\* is not a value of its kind
ASSUME OptionAssumption ==
  /\ None \notin Texts /\ None \notin TextElements /\ None \notin Body
  /\ None \notin Builder /\ None \notin EntryBuilder /\ None \notin ReadImage
  /\ None \notin [width : Nat, height : Nat]
  /\ None \notin Confidentiality \cup Integrity /\ None \notin Linearity
  /\ Unknown \notin SurfaceIds /\ Unknown \notin Int
  /\ Unknown \notin Bound /\ Unknown \notin Linearity
  /\ Unknown \notin Confidentiality \cup Integrity

\* Every variable holds a value of its type: in particular a finished surface
\* has all its texts and a known OS and codec, and an accepted document has
\* an image.
ParserTypeOK ==
  /\ pos \in 1 .. Len(doc) + 1
  /\ phase \in {"base", "coefficients", "accepted", "rejected"}
  /\ session.schema \in Nat
  /\ {session.id} \subseteq {None, Unknown, ComputeId(source.base)}
  /\ session.created \in Texts \cup {None}
  /\ \A i \in DOMAIN surfaces : surfaces[i] \in SurfaceEntry
  /\ layout \in [scroll : Int, focus : SurfaceIds \cup {None}]
  /\ surface # None => surface \in Builder
  /\ inHost \in BOOLEAN
  /\ target \in TextElements \cup {None}
  /\ buf \in Texts
  /\ phase \in {"coefficients", "accepted"} => image # None
  /\ inCoefficients \in BOOLEAN
  /\ entry # None => entry \in EntryBuilder
  /\ coefficients \in Seq(SurfaceCoefficient)

\* the coefficient block that is written of x, entry by entry
Entries(x) ==
  [i \in DOMAIN x.base.body.surfaces |->
     LET id == x.base.body.surfaces[i].id
     IN  [surfaceRef |-> id, coefficient |-> CoefficientFor(x.coefficients, id)]]

\* what the v1 reader asks of it
ReadsBack(x) ==
  LET s == x.base.body.surfaces
  IN  /\ DistinctSurfaces(s)
      /\ \A i \in DOMAIN s : /\ References(x.coefficients, s[i].id) # {}
                            /\ CoefficientFor(x.coefficients, s[i].id).timing # <<>>

\* Reading a document as it was written never fails, except that the v1 reader
\* wants one coefficient per surface, and a delay path in each: it refuses an
\* image in which one surface is listed twice, even one that gamma has just
\* made, one that to_xml was given with a coefficient missing, and a v0
\* document that has surfaces.  What is read is what was written, with its
\* texts trimmed and its surfaces in order, and with its coefficients in the
\* order that the surfaces had; v0 reading forgets the coefficients.
RoundTrip ==
  Done /\ doc \in Written =>
    LET body == source.base.body
    IN  /\ phase = "accepted" <=>
             \/ reader = "v0"
             \/ body.surfaces = <<>>
             \/ doc = ToXmlV1(source) /\ ReadsBack(source)
        /\ phase = "accepted" =>
             /\ image = [id |-> ComputeId(source.base), body |-> Reread(body)]
             /\ reader = "v1" => coefficients = Entries(source)

\* An image that comes back from its text form has kept its content address
\* exactly when no text of it was padded with white space and its surfaces
\* were listed in order: then, and only then, verify accepts it.
IdentitySurvivesTheText ==
  phase = "accepted" /\ doc \in Written =>
    LET s == source.base.body.surfaces IN Verify(image) <=> Trimmed(s) /\ Ordered(s)

Perhaps(t, u) == t \in {u, Unknown}

InsideSurface(i) ==
  \E j \in 1 .. i - 1 : /\ doc[j].kind = "open" /\ doc[j].el = "surface"
                        /\ \A k \in j .. i : doc[k] # Close("surface")

\* Whatever happened to the document, a surface of an accepted image is one
\* that was written: no field of it is missing, and none comes from another
\* surface, although the builder of a surface, the text buffer and the text
\* target are carried from event to event.  And what belonged to a surface
\* whose tags were lost is not dropped without a word: a document in which a
\* closed text element stands outside every surface is refused.
NothingBlended ==
  phase = "accepted" =>
    /\ \A i \in DOMAIN image.body.surfaces : \E j \in DOMAIN source.base.body.surfaces :
         LET s == image.body.surfaces[i]
             t == source.base.body.surfaces[j]
         IN  /\ s.id = t.id /\ s.order = t.order /\ Perhaps(s.name, t.name)
             /\ DOMAIN s.text = TextElements
             /\ \A el \in TextElements : Perhaps(s.text[el], Trim[t.text[el]])
             /\ s.width = t.width /\ s.height = t.height
    /\ \A i \in DOMAIN doc : doc[i].kind = "close" /\ doc[i].el \in TextElements
                            => InsideSurface(i)

\* the events before the coefficient block, or all of them
Prelude(d) ==
  LET starts == {i \in DOMAIN d : d[i].kind = "open" /\ d[i].el = "coefficients"}
  IN  IF starts = {} THEN d
      ELSE SubSeq(d, 1, (CHOOSE i \in starts : \A j \in starts : i <= j) - 1)

\* alpha at the level of the parser: what comes from the coefficient block on,
\* and whatever damage it took, changes neither the base that is read nor its
\* content address, and never makes the v0 parser fail.
CoefficientsAreInvisible ==
  Done /\ Prelude(doc) = Prelude(ToXmlV1(source)) =>
    /\ reader = "v0" => phase = "accepted"
    /\ phase = "accepted" => /\ image.id = ComputeId(source.base)
                             /\ image.body = Reread(source.base.body)

\* The Galois connection, for the images that from_xml accepts: going down to v0
\* and back never makes an image more constrained, and alpha and gamma are
\* adjoint; both for images graded along one delay path only.
ReadImagesObeyTheLaws ==
  phase = "accepted" /\ reader = "v1" =>
    /\ Inflationary(ParsedV1)
    /\ \A y \in Sources : Adjoint(ParsedV1, y.base)
=============================================================================
