CONSTANTS
  MaxPid = 3
  RA = RA
  RB = RB
  Gen = Gen
  Nada = Nada
  Recursos = {RA, RB}
  Interfaces = {Gen}
  Scripts <- ScriptsErroneos
  Instancias <- UnaInstancia
  Grado = 2
  Grados = {1, 3}
  Comandos = {"INICIAR_PROCESO", "INICIAR_PLANIFICACION", "PROCESO_ESTADO"}
  MaxComandos = 1
  MaxRetenidos = 6
SPECIFICATION Spec
INVARIANTS ConservaInstancias NegativasEnCola EsperaAnotada ExitSinRecursos
PROPERTIES ExitFinal
