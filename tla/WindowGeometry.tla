--------------------------- MODULE WindowGeometry ---------------------------
(***************************************************************************)
(* Positions and sizes of windows (src/wm/window_manager.c).  A rectangle  *)
(* is [y, x, h, w] and a screen [rows, cols], in character cells; the last *)
(* row of the screen belongs to the taskbar.                               *)
(***************************************************************************)
EXTENDS Integers

Least(a, b)    == IF a < b THEN a ELSE b
Greatest(a, b) == IF a > b THEN a ELSE b
Within(v, lo, hi) == Greatest(lo, Least(v, hi))

MinHeight    == 4      \* smallest window wm_create_window makes
MinWidth     == 8
MinWidthKeys == 12     \* smallest width wm_resize_active_window leaves

\* Mutant: only the corner is kept on the screen.
CornerOnly(r, s) ==
  [r EXCEPT !.y = Within(@, 0, s.rows - 1), !.x = Within(@, 0, s.cols - 1)]

\* wm_clamp_window: keep the rectangle above the taskbar, and at 0 if it
\* does not fit.
Clamp(r, s) ==
  [r EXCEPT !.y = Within(@, 0, Greatest(0, s.rows - r.h - 1)),
            !.x = Within(@, 0, Greatest(0, s.cols - r.w))]

ScreenTooSmall(s) == s.rows < MinHeight \/ s.cols < MinWidth

\* The rectangle of a new window when count windows exist already.  A
\* negative position asks for a cascade.
InitialRect(spec, s, count) ==
  LET h       == Least(Greatest(spec.h, MinHeight), Greatest(s.rows - 1, MinHeight))
      w       == Least(Greatest(spec.w, MinWidth), Greatest(s.cols, MinWidth))
      cascade == count % 5
      placed  == IF spec.y < 0 \/ spec.x < 0
                   THEN [y |-> 1 + cascade, x |-> 2 + 3 * cascade, h |-> h, w |-> w]
                   ELSE [y |-> spec.y, x |-> spec.x, h |-> h, w |-> w]
  IN  Clamp(placed, s)

MoveTo(r, y, x, s)   == Clamp([r EXCEPT !.y = y, !.x = x], s)
MoveBy(r, dy, dx, s) == MoveTo(r, r.y + dy, r.x + dx, s)

\* Growing may reach the taskbar row.  A size below the minimum is refused.
ResizeBy(r, dh, dw, s) ==
  LET h0 == Greatest(r.h + dh, MinHeight)
      w0 == Greatest(r.w + dw, MinWidthKeys)
      h  == IF s.rows > 0 /\ r.y + h0 > s.rows THEN s.rows - r.y ELSE h0
      w  == IF s.cols > 0 /\ r.x + w0 > s.cols THEN s.cols - r.x ELSE w0
  IN  IF h < MinHeight \/ w < MinWidthKeys THEN r ELSE [r EXCEPT !.h = h, !.w = w]

Contains(r, p) ==
  /\ p.y >= r.y /\ p.y < r.y + r.h
  /\ p.x >= r.x /\ p.x < r.x + r.w

OnTitle(r, p) == Contains(r, p) /\ p.y = r.y
=============================================================================
