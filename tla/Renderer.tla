------------------------------ MODULE Renderer ------------------------------
(***************************************************************************)
(* The two renderings of a label (crates/render): the SVG image that is    *)
(* printed and previewed, the PDF file that is the proof.                  *)
(* Lengths are thousandths of a millimetre in a template and in the SVG,   *)
(* of a point in the PDF.  A text is a sequence of characters here, in     *)
(* which a placeholder counts as one; of the syntax of the two formats     *)
(* only what a viewer makes of it is kept.                                 *)
(***************************************************************************)
EXTENDS PrintJob

CONSTANTS CharsOf,   \* the characters of a text of the request
          Decimal,   \* the characters of a number
          Plain,     \* characters that Helvetica's own encoding shows as they are
          Garbled    \* what the PDF shows for any other

\* The colours of a text that is one, as digits: #rgb or #rrggbb.
HexColor == {c \in Seq(0..15) : Len(c) \in {3, 6}}

Black == [i \in 1..6 |-> 0]
White == [i \in 1..6 |-> 15]

\* The fields a placeholder can name, in the order they are put in.
Placeholders == <<"job", "sku", "brand", "jan", "qty", "version">>

-----------------------------------------------------------------------------
(* Texts. *)

\* str::replace
Replaced(text, placeholder, value) ==
  LET upTo[n \in 0..Len(text)] ==
        IF n = 0 THEN <<>>
        ELSE upTo[n - 1] \o (IF text[n] = placeholder THEN value ELSE <<text[n]>>)
  IN  upTo[Len(text)]

\* What a placeholder stands for; the digits of a code are its characters.
Value(request, placeholder) ==
  CASE placeholder = "jan" -> request.jan
    [] placeholder = "qty" -> Decimal[request.qty]
    [] OTHER               -> CharsOf[request[placeholder]]

\* render_field_text; a value put in earlier is searched for the later ones.
FieldText(text, request) ==
  LET after[k \in 0..6] ==
        IF k = 0 THEN text
        ELSE Replaced(after[k - 1], Placeholders[k], Value(request, Placeholders[k]))
  IN  after[6]

\* escape_pdf_text writes the characters in UTF-8, in a font without an encoding.
PdfShows(text) ==
  [i \in DOMAIN text |-> IF text[i] \in Plain THEN text[i] ELSE Garbled]

-----------------------------------------------------------------------------
(* Colours and lengths. *)

\* sanitize_svg_color
Sanitized(color, fallback) == IF color \in HexColor THEN color ELSE fallback

\* hex_color_to_rgb, in 255ths: short colours are doubled, then read in pairs.
Rgb(color) ==
  LET c == IF Len(color) = 3
           THEN <<color[1], color[1], color[2], color[2], color[3], color[3]>>
           ELSE color
  IN  <<16 * c[1] + c[2], 16 * c[3] + c[4], 16 * c[5] + c[6]>>

\* What a viewer of the SVG makes of a colour.
CssColor(color) ==
  IF Len(color) = 3 THEN [i \in 1..3 |-> 17 * color[i]]
  ELSE [i \in 1..3 |-> 16 * color[2 * i - 1] + color[2 * i]]

\* mm_to_points and format_pdf_number: 72 points are 25.4 mm, to the nearest.
Points(length) == (720 * length + 127) \div 254

-----------------------------------------------------------------------------
(* The renderings. *)

HasBorder(template) == template.border # Absent /\ template.border.visible

\* 0.2 mm, of a border nobody sees
BorderWidth(template) ==
  IF HasBorder(template) THEN template.border.width ELSE 200

BorderColor(template) ==
  IF HasBorder(template) THEN Sanitized(template.border.color, Black) ELSE Black

\* render_svg_with_template
Svg(request, template) ==
  [width |-> template.width, height |-> template.height,
   fill |-> Sanitized(template.background, White),
   stroke |-> IF HasBorder(template) THEN BorderColor(template) ELSE Absent,
   strokeWidth |-> BorderWidth(template),
   texts |-> [i \in DOMAIN template.fields |->
                LET f == template.fields[i] IN
                [x |-> f.x, y |-> f.y, size |-> f.size,
                 color |-> Sanitized(f.color, Black),
                 text |-> FieldText(f.text, request)]]]

\* render_pdf_content; y is counted from the bottom of the page, and the
\* difference is rounded, not its terms.
Pdf(request, template) ==
  [width |-> Points(template.width), height |-> Points(template.height),
   fill |-> Rgb(Sanitized(template.background, White)),
   frame |-> IF HasBorder(template)
             THEN [color |-> Rgb(BorderColor(template)),
                   width |-> Points(BorderWidth(template))]
             ELSE Absent,
   texts |-> [i \in DOMAIN template.fields |->
                LET f == template.fields[i] IN
                [x |-> Points(f.x), y |-> Points(template.height - f.y),
                 size |-> Points(f.size), color |-> Rgb(Sanitized(f.color, Black)),
                 text |-> PdfShows(FieldText(f.text, request))]]]

\* build_artifact
Artifact(request, template, media) ==
  IF media = "application/pdf" THEN Pdf(request, template) ELSE Svg(request, template)

-----------------------------------------------------------------------------
(* The preview of a template that is being edited. *)

SampleOK(sample) ==
  /\ \A f \in {"job", "sku", "brand"} : ~IsBlank(sample[f])
  /\ Accepts(sample.jan)
  /\ sample.qty # 0

\* preview_template_draft, of a source that parses: the version is the one the
\* source itself says.
Preview(sample, template) ==
  IF ~SampleOK(sample) THEN Invalid
  ELSE LET shown == [job |-> Trimmed[sample.job], sku |-> Trimmed[sample.sku],
                     brand |-> Trimmed[sample.brand], jan |-> Parse(sample.jan).digits,
                     qty |-> sample.qty, version |-> template.version]
       IN  [svg |-> Svg(shown, template), jan |-> shown.jan, version |-> shown.version,
            fields |-> Len(template.fields)]
=============================================================================
