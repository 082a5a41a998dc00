------------------------------- MODULE MCCaptcha -------------------------------
(* The instances of Captcha that TLC checks; each run's configuration gives the   *)
(* constants their values.                                                        *)
EXTENDS Captcha
================================================================================
