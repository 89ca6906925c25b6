---------------------------- MODULE ImageDocument ----------------------------
(***************************************************************************)
(* The text form of session images as the sequence of events an XML reader *)
(* takes from it: [kind, el, attrs, text].  The writers are those of       *)
(* session.rs and galois.rs; indentation and the escapes, which the reader *)
(* undoes, are left out, and elements and attributes are named by their    *)
(* local names, the only part of a name that the parsers look at.          *)
(***************************************************************************)
EXTENDS Galois, SequencesExt

Open(el, attrs) == [kind |-> "open", el |-> el, attrs |-> attrs, text |-> None]
Empty(el, attrs) == [kind |-> "empty", el |-> el, attrs |-> attrs, text |-> None]
Close(el) == [kind |-> "close", el |-> el, attrs |-> <<>>, text |-> None]
TextEvent(t) == [kind |-> "text", el |-> "", attrs |-> <<>>, text |-> t]

Element(el, attrs, children) == <<Open(el, attrs)>> \o children \o <<Close(el)>>

TextElement(surface, el) == Element(el, <<>>, <<TextEvent(surface.text[el])>>)

WriteSurface(surface) ==
  Element("surface",
          [id |-> surface.id, name |-> surface.name, order |-> surface.order],
          Element("host", <<>>,
                     TextElement(surface, "address") \o TextElement(surface, "os")
                  \o TextElement(surface, "machine") \o TextElement(surface, "capture"))
          \o TextElement(surface, "codec")
          \o <<Empty("dimensions", [height |-> surface.height,
                                    width  |-> surface.width])>>)

WriteLayout(body) ==
  Element("layout", <<>>,
    <<Empty("strip", [scrollPos |-> body.scroll])>>
    \o IF body.focus = None THEN <<>>
       ELSE <<Empty("focus", [surfaceRef |-> body.focus])>>)

\* extra is spliced in after the layout
WriteDocument(img, id, extra) ==
  Element("session",
          [created |-> img.body.created, id |-> id, schemaVersion |-> img.body.schema],
          Element("surfaces", <<>>,
            FlattenSeq([i \in DOMAIN img.body.surfaces |->
                          WriteSurface(img.body.surfaces[i])]))
          \o WriteLayout(img.body)
          \o extra)

\* a declared id is written as it is
ToXml(img) == WriteDocument(img, IF img.id = None THEN ComputeId(img) ELSE img.id, <<>>)

(***************************************************************************)
(* The coefficient block, one entry per surface that has a coefficient, in *)
(* the order of the surfaces.                                              *)
(***************************************************************************)
WriteCoefficient(ref, c) ==
  Element("surface-coefficient", [surfaceRef |-> ref],
    Element("timing", <<>>,
      [k \in DOMAIN c.timing |-> Empty("delay-path", c.timing[k])])
    \o <<Empty("security", [confidentiality |-> c.confidentiality,
                            integrity       |-> c.integrity]),
         Empty("linearity", [count |-> c.linearity])>>)

WriteCoefficients(x) ==
  Element("coefficients", <<>>,
    FlattenSeq([i \in DOMAIN x.base.body.surfaces |->
      LET id == x.base.body.surfaces[i].id
      IN  IF References(x.coefficients, id) = {} THEN <<>>
          ELSE WriteCoefficient(id, CoefficientFor(x.coefficients, id))]))

ToXmlV1(x) == WriteDocument(x.base, SessionId(x), WriteCoefficients(x))

(***************************************************************************)
(* Documents that a person, a broken copy or a cut connection can make of  *)
(* a written one, with one change each: cut short before an event, without *)
(* one element, without the tags of one element, with one attribute        *)
(* missing, or with one attribute or text that no parser of a fixed        *)
(* vocabulary knows.                                                       *)
(***************************************************************************)
CONSTANT Unknown        \* such an attribute value or text

ClosingOf(doc, i) ==
  IF doc[i].kind = "empty" THEN i
  ELSE CHOOSE j \in i .. Len(doc) :
         /\ doc[j] = Close(doc[i].el)
         /\ \A k \in i + 1 .. j - 1 : doc[k] # Close(doc[i].el)

Starts(doc) == {i \in DOMAIN doc : doc[i].kind \in {"open", "empty"}}

CutShort(doc) == {SubSeq(doc, 1, i) : i \in 0 .. Len(doc) - 1}

WithoutElement(doc) ==
  {SubSeq(doc, 1, i - 1) \o SubSeq(doc, ClosingOf(doc, i) + 1, Len(doc)) : i \in Starts(doc)}

WithoutTags(doc) ==
  {SubSeq(doc, 1, i - 1) \o SubSeq(doc, i + 1, ClosingOf(doc, i) - 1)
     \o SubSeq(doc, ClosingOf(doc, i) + 1, Len(doc)) :
     i \in {j \in Starts(doc) : doc[j].kind = "open"}}

WithoutAttribute(doc) ==
  UNION {{[doc EXCEPT ![i].attrs = [b \in DOMAIN doc[i].attrs \ {a} |-> doc[i].attrs[b]]] :
            a \in DOMAIN doc[i].attrs} : i \in Starts(doc)}

Misspelt(doc) ==
  (UNION {{[doc EXCEPT ![i].attrs[a] = Unknown] : a \in DOMAIN doc[i].attrs} :
            i \in Starts(doc)})
  \cup {[doc EXCEPT ![i].text = Unknown] : i \in {j \in DOMAIN doc : doc[j].kind = "text"}}

Damaged(doc) ==
  CutShort(doc) \cup WithoutElement(doc) \cup WithoutTags(doc)
  \cup WithoutAttribute(doc) \cup Misspelt(doc)
=============================================================================
